---- MODULE Spec2Model ----
(***************************************************************************)
(* A model of cellprofiler/gui/editobjectsdlg.py (EditObjectsDialog): the  *)
(* label planes, the keep array, the control-point chains (artists), the   *)
(* editing modes and the undo stack, with one action per event handler.    *)
(*                                                                         *)
(* Coordinates.  A control point is a pair <<x, y>> (x = column, y = row)  *)
(* held in HALF-PIXEL units, so that the midpoints made by                 *)
(* get_split_points are exact: the pixel (row i, column j) has its centre  *)
(* at <<2*j, 2*i>>.  A pixel is a pair <<i, j>> (row, column); a labelled  *)
(* pixel is a triple <<i, j, v>>.                                          *)
(***************************************************************************)
EXTENDS Integers, Sequences, FiniteSets, TLC

\* ---------------------------------------------------------------- bounds
\* The raster is Rows x Cols pixels (self.shape).
Rows == 4
Cols == 4

Pixels == (0 .. Rows - 1) \X (0 .. Cols - 1)

\* ------------------------------------------------------ program constants
\* EditObjectsDialog.epsilon: maximum pixel distance to a vertex for a hit.
epsilon == 5

NORMAL_MODE == "normal"
SPLIT_PICK_FIRST_MODE == "split1"
SPLIT_PICK_SECOND_MODE == "split2"
FREEHAND_DRAW_MODE == "freehanddrawmode"
DELETE_MODE == "delete"

\* ------------------------------------------------------------- sequences
Range(s) == { s[k] : k \in DOMAIN s }

Last(s) == s[Len(s)]

\* s without its last element (python s[:-1])
Front(s) == SubSeq(s, 1, Len(s) - 1)

\* python s[a:b] on a sequence, 0-based, for 0 <= a; b is clipped to len(s)
Slice(s, a, b) ==
    LET e == IF b < Len(s) THEN b ELSE Len(s)
    IN  IF e <= a THEN << >> ELSE SubSeq(s, a + 1, e)

Abs(n) == IF n < 0 THEN -n ELSE n

Min2(a, b) == IF a <= b THEN a ELSE b

Max2(a, b) == IF a >= b THEN a ELSE b

SetMin(S) == CHOOSE m \in S : \A n \in S : m <= n

SetMax(S) == CHOOSE m \in S : \A n \in S : m >= n

\* Lexicographic order on tuples of integers of the same length.
LexLess(a, b) ==
    \E k \in DOMAIN a :
       /\ a[k] < b[k]
       /\ \A l \in 1 .. k - 1 : a[l] = b[l]

LexMin(S) == CHOOSE m \in S : \A n \in S : m = n \/ LexLess(m, n)

RECURSIVE SeqOfSet(_)
\* The elements of a set of integer tuples, in lexicographic order.
SeqOfSet(S) ==
    IF S = {} THEN << >>
    ELSE LET m == LexMin(S) IN << m >> \o SeqOfSet(S \ {m})

Count(s, e) == Cardinality({ k \in DOMAIN s : s[k] = e })

RECURSIVE Copies(_, _)
Copies(e, n) == IF n = 0 THEN << >> ELSE << e >> \o Copies(e, n - 1)

RECURSIVE SortOver(_, _)
SortOver(S, s) ==
    IF S = {} THEN << >>
    ELSE LET m == LexMin(S) IN Copies(m, Count(s, m)) \o SortOver(S \ {m}, s)

\* np.lexsort on the rows of an array, first column most significant: the
\* rows in lexicographic order, equal rows kept as many times as they occur.
lexsort(s) == SortOver(Range(s), s)

\* ---------------------------------------------------------------- raster
\* self.labels is a sequence of planes; a plane is the set of its nonzero
\* entries <<i, j, v>>, at most one per pixel.

\* calculate_ijv: the planes in order, each in row-major order.
RECURSIVE calculate_ijv(_)
calculate_ijv(labels) ==
    IF labels = << >> THEN << >>
    ELSE SeqOfSet(Head(labels)) \o calculate_ijv(Tail(labels))

\* flatten(): the (row, col, id) triples of all planes.
flatten(labels) == UNION Range(labels)

ObjectPixels(labels, v) == { << t[1], t[2] >> : t \in { u \in flatten(labels) : u[3] = v } }

Stamp(mask, v) == { << p[1], p[2], v >> : p \in mask }

remove_label(labels, object_number) ==
    [k \in DOMAIN labels |-> { t \in labels[k] : t[3] # object_number }]

RECURSIVE PlaceObjects(_, _, _)
PlaceObjects(planes, ids, T) ==
    IF ids = {} THEN planes
    ELSE LET v == SetMin(ids)
             obj == { t \in T : t[3] = v }
             px == { << t[1], t[2] >> : t \in obj }
             fits == { k \in DOMAIN planes :
                         \A t \in planes[k] : << t[1], t[2] >> \notin px }
         IN  IF fits = {}
             THEN PlaceObjects(Append(planes, obj), ids \ {v}, T)
             ELSE PlaceObjects([planes EXCEPT ![SetMin(fits)] = @ \cup obj],
                               ids \ {v}, T)

\* cellprofiler.objects.Objects.get_labels (with .ijv set): label planes that
\* keep every (row, col, id) claim, two identifiers that claim one pixel going
\* to different planes; one empty plane for an empty ijv.
get_labels(ijv) ==
    LET T == Range(ijv)
    IN  IF T = {} THEN << {} >>
        ELSE PlaceObjects(<< {} >>, { t[3] : t \in T }, T)

restructure_labels(labels) == get_labels(calculate_ijv(labels))

replace_label(labels, mask, object_number) ==
    restructure_labels(Append(remove_label(labels, object_number),
                              Stamp(mask, object_number)))

\* --------------------------------------------------------------- geometry
Centre(p) == << 2 * p[2], 2 * p[1] >>

\* One edge a -> b against the horizontal ray from p towards +x: the edge
\* spans p's row half-open and meets the ray strictly right of p.
CrossesRay(p, a, b) ==
    /\ (a[2] > p[2]) # (b[2] > p[2])
    /\ LET dy == b[2] - a[2]
           lhs == (p[1] - a[1]) * dy
           rhs == (b[1] - a[1]) * (p[2] - a[2])
       IN  IF dy > 0 THEN lhs < rhs ELSE lhs > rhs

\* Even-odd rule over the lines xy[k] -> xy[k+1].
EvenOdd(p, xy) ==
    Cardinality({ k \in 1 .. Len(xy) - 1 : CrossesRay(p, xy[k], xy[k + 1]) }) % 2 = 1

\* cpmorphology.polygon_lines_to_mask(i[:-1], j[:-1], i[1:], j[1:], shape):
\* the pixels inside the lines between consecutive points of xy.
polygon_lines_to_mask(xy) == { p \in Pixels : EvenOdd(Centre(p), xy) }

Cross(o, a, b) == (a[1] - o[1]) * (b[2] - o[2]) - (a[2] - o[2]) * (b[1] - o[1])

\* cpmorphology.triangle_areas, times 8 (the points are in half pixels and
\* the area is half the cross product).
triangle_areas8(p1, p2, p3) == Abs(Cross(p1, p2, p3))

\* matplotlib's segments_intersect (path_intersects_path): the two segments
\* a1-a2 and b1-b2 meet, end points included; parallel segments never do.
segments_intersect(a1, a2, b1, b2) ==
    LET den == (b2[2] - b1[2]) * (a2[1] - a1[1]) - (b2[1] - b1[1]) * (a2[2] - a1[2])
        n1 == (b2[1] - b1[1]) * (a1[2] - b1[2]) - (b2[2] - b1[2]) * (a1[1] - b1[1])
        n2 == (a2[1] - a1[1]) * (a1[2] - b1[2]) - (a2[2] - a1[2]) * (a1[1] - b1[1])
        In01(n) == IF den > 0 THEN 0 <= n /\ n <= den ELSE den <= n /\ n <= 0
    IN  den # 0 /\ In01(n1) /\ In01(n2)

\* Path.intersects_path(other, filled = False) on two polylines.
intersects_path(path, other) ==
    \E k \in 1 .. Len(path) - 1 : \E l \in 1 .. Len(other) - 1 :
        segments_intersect(path[k], path[k + 1], other[l], other[l + 1])

\* --------------------------------------------------------------- contours
\* make_control_points works on the mask padded by one pixel on every side.
PadPixels == (0 .. Rows + 1) \X (0 .. Cols + 1)

Neighbours(p, eight) ==
    { q \in (p[1] - 1 .. p[1] + 1) \X (p[2] - 1 .. p[2] + 1) :
        q # p /\ (eight \/ q[1] = p[1] \/ q[2] = p[2]) }

RECURSIVE Flood(_, _, _, _)
Flood(comp, frontier, S, eight) ==
    LET nxt == (UNION { Neighbours(p, eight) : p \in frontier } \cap S) \ comp
    IN  IF nxt = {} THEN comp ELSE Flood(comp \cup nxt, nxt, S, eight)

RECURSIVE ndimage_label(_, _)
\* scipy.ndimage.label: the connected components of the pixel set S (8- or
\* 4-connected), numbered in raster order of their first pixel.
ndimage_label(S, eight) ==
    IF S = {} THEN << >>
    ELSE LET p == LexMin(S)
             c == Flood({p}, {p}, S, eight)
         IN  << c >> \o ndimage_label(S \ c, eight)

\* The eight neighbour steps <<di, dj>> clockwise from east.
Dirs == << << 0, 1 >>, << 1, 1 >>, << 1, 0 >>, << 1, -1 >>,
           << 0, -1 >>, << -1, -1 >>, << -1, 0 >>, << -1, 1 >> >>

Step(p, d) == << p[1] + Dirs[d + 1][1], p[2] + Dirs[d + 1][2] >>

RECURSIVE Trace(_, _, _, _, _, _)
\* Boundary following: from cur, reached by a step in direction dir, take the
\* first neighbour in comp clockwise from the back-left; stop at the start.
Trace(comp, start, cur, dir, acc, fuel) ==
    LET s == IF dir % 2 = 0 THEN (dir + 7) % 8 ELSE (dir + 6) % 8
        found == { n \in 0 .. 7 : Step(cur, (s + n) % 8) \in comp }
    IN  IF found = {} \/ fuel = 0 THEN acc
        ELSE LET d == (s + SetMin(found)) % 8
                 nxt == Step(cur, d)
             IN  IF nxt = start THEN acc
                 ELSE Trace(comp, start, nxt, d, Append(acc, nxt), fuel - 1)

\* cpmorphology.get_outline_pts for one labelled component: its boundary
\* pixels <<i, j>> in order, from the topmost-leftmost one.
get_outline_pts(comp) ==
    LET start == LexMin(comp)
    IN  Trace(comp, start, start, 7, << start >>, 4 * Cardinality(comp))

Reverse(s) == [k \in DOMAIN s |-> s[Len(s) + 1 - k]]

\* One pass of the while loop of make_control_points over the accepted
\* 0-based indices of chain: the largest area a[idxmax] (8 times the area, in
\* half-pixels) and the index idx halfway between the accepted neighbours of
\* idxmax.
loop_pass(chain, accepted) ==
    LET n == Len(chain)
        prev(k) == SetMax({ a \in accepted : a <= k })
        next(k) == SetMin({ a \in accepted : a > k })
        a(k) == triangle_areas8(chain[prev(k) + 1], chain[next(k) + 1], chain[k + 1])
        amax == SetMax({ a(k) : k \in 0 .. n - 2 })
        idxmax == SetMin({ k \in 0 .. n - 2 : a(k) = amax })
    IN  [amax |-> amax, idxmax |-> idxmax, idx |-> (prev(idxmax) + next(idxmax)) \div 2]

RECURSIVE AcceptLoop_below_16(_, _)
\* A variant that stops below an area of 16.
AcceptLoop_below_16(chain, accepted) ==
    LET pass == loop_pass(chain, accepted)
    IN  IF pass.amax < 8 * 16 THEN accepted
        ELSE AcceptLoop_below_16(chain, accepted \cup { pass.idx })

RECURSIVE AcceptLoop(_, _)
\* The while loop of make_control_points: accepted is the set of accepted
\* 0-based indices of chain.
AcceptLoop(chain, accepted) ==
    LET pass == loop_pass(chain, accepted)
    IN  IF pass.amax < 8 * 4 THEN accepted
        ELSE AcceptLoop(chain, accepted \cup { pass.idx })

\* The accepted 0-based indices of a closed chain: all of them for a chain of
\* at most 10 points, the outcome of the while loop for a longer one.
accepted_points(chain) ==
    LET n == Len(chain)
    IN  IF n > 10
        THEN AcceptLoop(chain, { 0, n - 1, n \div 2 })
        ELSE 0 .. n - 1

\* A variant that sends every chain through the loop, whatever its length.
Simplify_any_length(chain) ==
    LET n == Len(chain)
        aidx == SeqOfSet({ << a >> : a \in AcceptLoop(chain, { 0, n - 1, n \div 2 }) })
    IN  [k \in DOMAIN aidx |-> chain[aidx[k][1] + 1]]

\* A variant that starts simplifying at 9 points instead of 11.
Simplify_beyond_8(chain) ==
    LET n == Len(chain)
        aidx == SeqOfSet({ << a >> : a \in AcceptLoop(chain, { 0, n - 1, n \div 2 }) })
    IN  IF n > 8 THEN [k \in DOMAIN aidx |-> chain[aidx[k][1] + 1]] ELSE chain

\* chain[accepted]: the simplification of a closed chain.
Simplify(chain) ==
    LET aidx == SeqOfSet({ << a >> : a \in accepted_points(chain) })
    IN  [k \in DOMAIN aidx |-> chain[aidx[k][1] + 1]]

\* The raw chain of one component: its outline (reversed for a hole), closed
\* by its first point, in half-pixel <<x, y>>, in the coordinates of the
\* padded mask.
RawChain(comp, polarity) ==
    LET pts == get_outline_pts(comp)
        ord == IF polarity THEN pts ELSE Reverse(pts)
        closed == Append(ord, ord[1])
    IN  [k \in DOMAIN closed |-> << 2 * closed[k][2], 2 * closed[k][1] >>]

\* The chain of one component after simplification.
ComponentChain(comp, polarity) == Simplify(RawChain(comp, polarity))

\* A variant that labels the inverted mask 8-connected, as it does the object.
sub_objects_with_8_connected_holes(labels, object_number) ==
    LET mask == { << p[1] + 1, p[2] + 1 >> : p \in ObjectPixels(labels, object_number) }
        outs == ndimage_label(mask, TRUE)
        comps == ndimage_label(PadPixels \ mask, TRUE)
        holes == SelectSeq(comps, LAMBDA c : << 0, 0 >> \notin c)
    IN  [k \in DOMAIN outs |-> [comp |-> outs[k], outside |-> TRUE]]
        \o [k \in DOMAIN holes |-> [comp |-> holes[k], outside |-> FALSE]]

\* The components make_control_points outlines for object_number, as records
\* [comp, outside] over the padded mask: the 8-connected components of the
\* object first, then the 4-connected components of the inverted mask other
\* than the one of the padded corner labels[0, 0].
sub_objects(labels, object_number) ==
    LET mask == { << p[1] + 1, p[2] + 1 >> : p \in ObjectPixels(labels, object_number) }
        outs == ndimage_label(mask, TRUE)
        comps == ndimage_label(PadPixels \ mask, FALSE)
        holes == SelectSeq(comps, LAMBDA c : << 0, 0 >> \notin c)
    IN  [k \in DOMAIN outs |-> [comp |-> outs[k], outside |-> TRUE]]
        \o [k \in DOMAIN holes |-> [comp |-> holes[k], outside |-> FALSE]]

\* make_control_points(object_number): the new chains, outside ones first,
\* as records [xy, outside].
make_control_points(labels, object_number) ==
    LET subs == sub_objects(labels, object_number)
    IN  [k \in DOMAIN subs |->
            [xy |-> ComponentChain(subs[k].comp, subs[k].outside),
             outside |-> subs[k].outside]]

\* cpmorphology.convex_hull_image: the pixels of the convex hull of mask.
convex_hull_image(mask) ==
    { p \in Pixels :
        \E a \in mask : \E b \in mask : \E c \in mask :
            LET d1 == Cross(a, b, p)
                d2 == Cross(b, c, p)
                d3 == Cross(c, a, p)
            IN  ~ ((d1 < 0 \/ d2 < 0 \/ d3 < 0) /\ (d1 > 0 \/ d2 > 0 \/ d3 > 0)) /\
                \* a degenerate triangle holds only the points of its segment
                (Cross(a, b, c) # 0 \/
                   /\ Min2(Min2(a[1], b[1]), c[1]) <= p[1]
                   /\ p[1] <= Max2(Max2(a[1], b[1]), c[1])
                   /\ Min2(Min2(a[2], b[2]), c[2]) <= p[2]
                   /\ p[2] <= Max2(Max2(a[2], b[2]), c[2])) }

\* ------------------------------------------------------------------ state
VARIABLES
    allow_overlap,      \* self.allow_overlap
    orig_labels,        \* self.orig_labels
    labels,             \* self.labels: the sequence of planes
    to_keep,            \* self.to_keep: to_keep[v + 1] is python's to_keep[v]
    artists,            \* self.artists: the open chains, a sequence of records
    undo_stack,         \* self.undo_stack: records [ijvx, save]
    last_ijv,           \* self.last_ijv
    last_artist_save,   \* self.last_artist_save
    undo_button,        \* self.undo_button.Enable(...)
    chains_before,      \* history: for each undo entry, the chains as they were when
                        \* the operation it records began
    mode,               \* self.mode
    active_artist,      \* self.active_artist: [aid, xy]; aid 0 is None, -1 a stroke
    active_index,       \* self.active_index, 0-based; -1 is None
    split_artist,       \* self.split_artist is not None
    split_pick_artist,  \* self.split_pick_artist: an aid, 0 before the first pick
    split_pick_index,   \* self.split_pick_index, 0-based
    delete_mode_start,  \* self.delete_mode_start: << >> is None, else <<x, y>>
    delete_mode_filter, \* self.delete_mode_filter: << >> is None, else <<xmin, xmax, ymin, ymax>>
    delete_mode_artist, \* self.delete_mode_artist is not None
    delete_mode_rect_artist, \* self.delete_mode_rect_artist is not None
    ev,                 \* the handler that ran last and the branch it took
    raised,             \* the exception the last handler ended with, "" for none
    ndrag,              \* number of control-point moves so far
    nkeep,              \* number of keep-flag commands so far
    nsteps,             \* number of events handled so far
    event               \* <<row, col>> of the pointer at the last key or click that
                        \* looked a chain up or placed a point, << >> otherwise

rasterVars == << labels, to_keep >>
undoVars == << undo_stack, last_ijv, last_artist_save, undo_button, chains_before >>
splitVars == << split_artist, split_pick_artist, split_pick_index >>
deleteVars == << delete_mode_start, delete_mode_filter, delete_mode_artist,
                 delete_mode_rect_artist >>
activeVars == << active_artist, active_index >>
constVars == << allow_overlap, orig_labels >>
countVars == << ndrag, nkeep >>
vars == << constVars, rasterVars, artists, undoVars, mode, activeVars, splitVars,
           deleteVars, ev, raised, countVars, nsteps, event >>

\* A chain (a Line2D of self.artists with its attribute dictionary):
\*   aid      the identity of the Line2D object
\*   arr      the identity of its data arrays (get_data() hands out the arrays
\*            themselves, so a snapshot shares them until set_data replaces them)
\*   did      the identity of its attribute dictionary
\*   xy       the points <<x, y>>, in half pixels
\*   label, edited, outside   the K_LABEL, K_EDITED, K_OUTSIDE attributes
NoArtist == [aid |-> 0, xy |-> << >>]

\* ----------------------------------------------------------------- bounds
\* most entries of the undo stack
MaxUndo == 2
\* most identifiers (len(to_keep) - 1)
MaxObjects == 3
\* most control-point moves in one session
MaxDrags == 2
\* most keep-flag commands in one session
MaxKeep == 2
\* screen pixels per image pixel of the axes transform
DisplayScale == 10

\* ---------------------------------------------------- construction inputs
Block(r0, r1, c0, c1, v) == { << i, j, v >> : << i, j >> \in (r0 .. r1) \X (c0 .. c1) }

TwoBlocks == << Block(0, 1, 0, 1, 1) \cup Block(2, 3, 0, 2, 2) >>
ThreeBlocks == << Block(0, 1, 0, 1, 1) \cup Block(2, 3, 0, 1, 2) \cup Block(0, 3, 3, 3, 3) >>
Ring == << Block(0, 3, 0, 3, 1) \ Block(1, 2, 1, 2, 1) >>
OnePixel == << Block(0, 0, 0, 0, 1) >>
OneBlock == << Block(0, 1, 0, 1, 1) >>
\* A 3 x 3 block at rows 1-3, columns 1-3.
Block3 == << Block(1, 3, 1, 3, 1) >>
\* A 3 x 3 block at rows 0-2, columns 0-2.
Square == << Block(0, 2, 0, 2, 1) >>
\* A 3 x 4 block and the whole raster.
Wide == << Block(0, 2, 0, 3, 1) >>
Full == << Block(0, 3, 0, 3, 1) >>
\* Four pixels touching by their corners around a background pixel.
Diamond == << { << 0, 1, 1 >>, << 1, 0, 1 >>, << 1, 2, 1 >>, << 2, 1, 1 >> } >>
\* Two pixels that cut off the raster's corner pixel, and a pixel apart.
Scattered == << { << 0, 1, 1 >>, << 1, 0, 1 >>, << 3, 3, 1 >> } >>
\* A 3 x 3 block with one more pixel at its upper right corner.
Flag == << Block(0, 2, 0, 2, 1) \cup { << 0, 3, 1 >> } >>
\* Four pixels around a background pixel, and a pixel apart from them.
Kite == << { << 1, 2, 1 >>, << 2, 1, 1 >>, << 2, 3, 1 >>, << 3, 2, 1 >>, << 0, 0, 1 >> } >>
\* A ring of object 1 around a block of object 2.
Filled == << (Block(0, 3, 0, 3, 1) \ Block(1, 2, 1, 2, 1)) \cup Block(1, 2, 1, 2, 2) >>
Empty == << {} >>

InitialPlanes ==
    { TwoBlocks, ThreeBlocks, Ring, OnePixel, OneBlock, Block3, Square, Wide, Full, Diamond,
      Scattered, Flag, Kite, Filled, Empty }

\* ------------------------------------------------------------ identities
\* A new python object is distinct from every object still referenced.
RECURSIVE FreshIds(_, _)
FreshIds(used, n) ==
    IF n = 0 THEN << >>
    ELSE LET f == SetMin((1 .. Cardinality(used) + 1) \ used)
         IN  << f >> \o FreshIds(used \cup {f}, n - 1)

Saves(stack, save) == UNION { Range(stack[k].save) : k \in DOMAIN stack } \cup Range(save)

UsedAids(arts) ==
    { a.aid : a \in Range(arts) } \cup { active_artist.aid, split_pick_artist }

UsedArrs(arts, stack, save) == { a.arr : a \in Range(arts) \cup Saves(stack, save) }

UsedDids(arts, stack, save) == { a.did : a \in Range(arts) \cup Saves(stack, save) }

\* New Line2D objects with new attribute dictionaries for the chains cs
\* (records [xy, outside]) of object_number, as make_control_points adds them.
NewArtists(arts, cs, object_number, edited) ==
    LET n == Len(cs)
        aids == FreshIds(UsedAids(arts), n)
        arrs == FreshIds(UsedArrs(arts, undo_stack, last_artist_save), n)
        dids == FreshIds(UsedDids(arts, undo_stack, last_artist_save), n)
    IN  [k \in 1 .. n |->
            [aid |-> aids[k], arr |-> arrs[k], did |-> dids[k], xy |-> cs[k].xy,
             label |-> object_number, edited |-> edited, outside |-> cs[k].outside]]

ArtistOf(aid) == CHOOSE a \in Range(artists) : a.aid = aid

IndexOf(arts, aid) == CHOOSE k \in DOMAIN arts : arts[k].aid = aid

Labels(arts) == { a.label : a \in Range(arts) }

\* ------------------------------------------------------------ close_label
\* close_label(label): the planes and the chains after closing the chains of
\* label; the raster is rewritten only if one of them is edited.
close_label(lbls, arts, label) ==
    LET my == SelectSeq(arts, LAMBDA a : a.label = label)
        rest == SelectSeq(arts, LAMBDA a : a.label # label)
        masks == [k \in DOMAIN my |-> polygon_lines_to_mask(my[k].xy)]
        mask == { p \in Pixels :
                    Cardinality({ k \in DOMAIN my : p \in masks[k] }) % 2 = 1 }
    IN  IF \E k \in DOMAIN my : my[k].edited
        THEN [labels |-> replace_label(lbls, mask, label), artists |-> rest]
        ELSE [labels |-> lbls, artists |-> rest]

RECURSIVE close_labels(_, _, _)
\* for label in all_labels: self.close_label(label, display=False)
close_labels(lbls, arts, all_labels) ==
    IF all_labels = {} THEN [labels |-> lbls, artists |-> arts]
    ELSE LET l == SetMin(all_labels)
             c == close_label(lbls, arts, l)
         IN  close_labels(c.labels, c.artists, all_labels \ {l})

\* ------------------------------------------------------------------- undo
\* The chains of arts without their identities: points and attributes.
ChainSet(arts) ==
    { [xy |-> a.xy, label |-> a.label, outside |-> a.outside, edited |-> a.edited] :
        a \in Range(arts) }

Tag(ijv, t) == [k \in DOMAIN ijv |-> << ijv[k][1], ijv[k][2], ijv[k][3], t >>]

SameIJV(a, b) == a[1] = b[1] /\ a[2] = b[2] /\ a[3] = b[3]

RECURSIVE Compress(_, _, _)
\* s[keep] for a boolean index array: the rows of s whose index is in keep
Compress(s, keep, k) ==
    IF k > Len(s) THEN << >>
    ELSE (IF k \in keep THEN << s[k] >> ELSE << >>) \o Compress(s, keep, k + 1)

\* The diff of record_undo: the rows of ijv (tagged 0) and of last (tagged 1)
\* sorted together, every row 0 directly followed by its copy tagged 1
\* removed with that copy.
UndoDiff(ijv, last) ==
    IF Len(ijv) = 0 THEN << >>
    ELSE LET ijvx == lexsort(Tag(ijv, 0) \o Tag(last, 1))
             n == Len(ijvx)
             m == { k \in 1 .. n - 1 :
                      SameIJV(ijvx[k], ijvx[k + 1]) /\ ijvx[k][4] = 0 /\ ijvx[k + 1][4] = 1 }
             matches == m \cup { k + 1 : k \in m }
         IN  Compress(ijvx, (1 .. n) \ matches, 1)

\* The rows undo keeps: the diff and last_ijv (tagged 1) sorted together,
\* every two neighbouring rows with the same (i, j, v) removed.
UndoMerge(diff, last) ==
    LET ijvx == lexsort(diff \o Tag(last, 1))
        n == Len(ijvx)
        m == { k \in 1 .. n - 1 : SameIJV(ijvx[k], ijvx[k + 1]) }
        matches == m \cup { k + 1 : k \in m }
        kept == Compress(ijvx, (1 .. n) \ matches, 1)
    IN  [k \in DOMAIN kept |-> << kept[k][1], kept[k][2], kept[k][3] >>]

\* artist_save of record_undo: the data arrays themselves and a copy of each
\* attribute dictionary.
ArtistSave(arts, stack, save) ==
    LET dids == FreshIds(UsedDids(arts, stack, save), Len(arts))
    IN  [k \in DOMAIN arts |-> [arts[k] EXCEPT !.aid = 0, !.did = dids[k]]]

\* A variant of record_undo that pushes the entry but keeps the old snapshot.
record_undo_keeping_last_ijv(lbls, arts, stack, save) ==
    LET ijv == calculate_ijv(lbls)
    IN  /\ undo_stack' = Append(stack, [ijvx |-> UndoDiff(ijv, last_ijv), save |-> save])
        /\ last_artist_save' = ArtistSave(arts, stack, save)
        /\ UNCHANGED last_ijv
        /\ undo_button' = TRUE
        /\ chains_before' = Append(chains_before, ChainSet(artists))

\* record_undo, run when the handler has left the planes lbls, the chains
\* arts and the snapshots stack and save.
record_undo(lbls, arts, stack, save) ==
    LET ijv == calculate_ijv(lbls)
    IN  /\ undo_stack' = Append(stack, [ijvx |-> UndoDiff(ijv, last_ijv), save |-> save])
        /\ last_artist_save' = ArtistSave(arts, stack, save)
        /\ last_ijv' = ijv
        /\ undo_button' = TRUE
        /\ chains_before' = Append(chains_before, ChainSet(artists))

\* The handler's edits followed by record_undo.
Commit(lbls, arts) ==
    /\ labels' = lbls
    /\ artists' = arts
    /\ record_undo(lbls, arts, undo_stack, last_artist_save)

\* undo: pop an entry and apply it.
undo ==
    LET top == Last(undo_stack)
        ijv == UndoMerge(top.ijvx, last_ijv)
        aids == FreshIds(UsedAids(<< >>), Len(top.save))
    IN  /\ undo_stack' = Front(undo_stack)
        /\ last_ijv' = ijv
        /\ last_artist_save' = top.save
        /\ labels' = get_labels(ijv)
        /\ artists' = [k \in DOMAIN top.save |-> [top.save[k] EXCEPT !.aid = aids[k]]]
        /\ undo_button' = IF Len(undo_stack) = 1 THEN FALSE ELSE undo_button
        /\ chains_before' = Front(chains_before)

\* ---------------------------------------------------- in-place mutation
\* data[0][index] = xdata writes into the arrays, which every snapshot that
\* saved them shares; d[K_EDITED] = True writes into the dictionary, which
\* the chains restored by undo share with the snapshot they came from.
WriteArr(recs, arr, xy) ==
    [k \in DOMAIN recs |-> IF recs[k].arr = arr THEN [recs[k] EXCEPT !.xy = xy] ELSE recs[k]]

SetEdited(recs, dids) ==
    [k \in DOMAIN recs |->
        IF recs[k].did \in dids THEN [recs[k] EXCEPT !.edited = TRUE] ELSE recs[k]]

StackWriteArr(stack, arr, xy) ==
    [k \in DOMAIN stack |-> [stack[k] EXCEPT !.save = WriteArr(@, arr, xy)]]

StackSetEdited(stack, dids) ==
    [k \in DOMAIN stack |-> [stack[k] EXCEPT !.save = SetEdited(@, dids)]]

\* ------------------------------------------------------------- hit tests
Dist2(a, b) == (a[1] - b[1]) * (a[1] - b[1]) + (a[2] - b[2]) * (a[2] - b[2])

\* The squared distance (half pixels) from pos to the nearest point of
\* xydata[:-1], and the first index (0-based) at that distance.
NearestD2(a, c) == SetMin({ Dist2(a.xy[k], c) : k \in 1 .. Len(a.xy) - 1 })

NearestIdx(a, c) ==
    SetMin({ k \in 1 .. Len(a.xy) - 1 : Dist2(a.xy[k], c) = NearestD2(a, c) }) - 1

\* d < self.epsilon for a distance d in screen pixels
WithinEpsilon(d2) == DisplayScale * DisplayScale * d2 < 4 * epsilon * epsilon

\* get_control_point: the results <<aid, index>> it can give for an event at
\* pixel pos, one for each order the dictionary may iterate in; {} for None.
get_control_point(arts, pos) ==
    LET c == Centre(pos)
        cand == { a \in Range(arts) : Len(a.xy) >= 2 /\ WithinEpsilon(NearestD2(a, c)) }
        best == { a \in cand : \A b \in cand : NearestD2(a, c) <= NearestD2(b, c) }
    IN  { << a.aid, NearestIdx(a, c) >> : a \in best }

\* int(c + .5) for a pointer at the centre of pixel c: python's int rounds
\* towards zero, so that pixel -1 gives 0
IntOfCentre(c) == IF c >= 0 THEN c ELSE c + 1

\* x = int(event.xdata + .5); y = int(event.ydata + .5); nothing off the
\* raster; for labels in self.labels: lnum = labels[y, x]; if lnum != 0: break
LabelAt(lbls, pos) ==
    LET y == IntOfCentre(pos[1])
        x == IntOfCentre(pos[2])
        has == { k \in DOMAIN lbls : \E t \in lbls[k] : t[1] = y /\ t[2] = x }
    IN  IF x < 0 \/ x >= Cols \/ y < 0 \/ y >= Rows \/ has = {} THEN 0
        ELSE (CHOOSE t \in lbls[SetMin(has)] : t[1] = y /\ t[2] = x)[3]

\* Path(artist.get_xydata()).contains_point((xdata, ydata))
contains_point(xy, pos) == EvenOdd(Centre(pos), Append(xy, xy[1]))

\* ------------------------------------------------- the validity checker
Sign(n) == IF n > 0 THEN 1 ELSE IF n < 0 THEN -1 ELSE 0

\* cpmorphology.distance2_to_line(pt, l0, l1) < eps: the squared distance
\* of pt to the line through l0 and l1 (not a number if l0 = l1).
OnLine(pt, l0, l1) == l0 # l1 /\ Cross(l0, l1, pt) = 0

\* any(on_segment) over the lines of xydata
on_segment(new_pt, xydata) ==
    \E k \in 1 .. Len(xydata) - 1 :
        LET l0 == xydata[k]
            l1 == xydata[k + 1]
        IN  /\ OnLine(new_pt, l0, l1)
            /\ Sign(new_pt[1] - l0[1]) # Sign(new_pt[1] - l1[1])
            /\ Sign(new_pt[2] - l0[2]) # Sign(new_pt[2] - l1[2])

\* The lines of the active chain that are tested: all but the two on either
\* side of the active point.
OwnLines(xy, index) ==
    LET data == Front(xy)
        n == Len(data)
        rot == Slice(data, index, n) \o Slice(data, 0, index + 1)
    IN  Slice(rot, 2, Len(rot) - 2)

\* The loop of handle_mouse_moved_active_mode returns at chain b.
Rejects(b, act, index, new_pt) ==
    LET data == Front(act.xy)
        n_points == Len(data)
        before_pt == data[((n_points - 1 + index) % n_points) + 1]
        after_pt == data[((index + 1) % n_points) + 1]
        path == << before_pt, new_pt, after_pt >>
        own == b.aid = act.aid
        xydata == IF own THEN OwnLines(act.xy, index) ELSE b.xy
    IN  /\ ~ (allow_overlap /\ b.label # act.label)
        /\ ~ (own /\ n_points <= 4)
        /\ ~ on_segment(new_pt, xydata)
        /\ intersects_path(path, xydata)

\* The points of the active chain after an accepted move.
Moved(xy, index, new_pt) ==
    [k \in DOMAIN xy |->
        IF k = index + 1 \/ (index = 0 /\ k = Len(xy)) THEN new_pt ELSE xy[k]]

\* most open chains
MaxChains == 3
\* most events of one session
MaxSteps == 6
\* most points of a freehand stroke before the button is released
MaxStroke == 2
\* most points of a chain that the properties look at
MaxChainLen == 16

\* ------------------------------------------------------------------ Init
\* __init__: reset(display=False), then the fields of the dialog.
Init ==
    /\ allow_overlap \in BOOLEAN
    /\ orig_labels \in InitialPlanes
    /\ labels = orig_labels
    /\ to_keep = [k \in 1 .. SetMax({ t[3] : t \in flatten(orig_labels) } \cup {0}) + 1 |-> TRUE]
    /\ artists = << >>
    /\ undo_stack = << >>
    /\ last_ijv = calculate_ijv(orig_labels)
    /\ last_artist_save = << >>
    /\ undo_button = FALSE
    /\ chains_before = << >>
    /\ mode = NORMAL_MODE
    /\ active_artist = NoArtist
    /\ active_index = -1
    /\ split_artist = FALSE
    /\ split_pick_artist = 0
    /\ split_pick_index = -1
    /\ delete_mode_start = << >>
    /\ delete_mode_filter = << >>
    /\ delete_mode_artist = FALSE
    /\ delete_mode_rect_artist = FALSE
    /\ ev = "init"
    /\ raised = ""
    /\ ndrag = 0
    /\ nkeep = 0
    /\ nsteps = 0
    /\ event = << >>

\* Every handler counts as one event of the session.
Tick == nsteps < MaxSteps /\ nsteps' = nsteps + 1

\* The handler's edits followed by record_undo, where the handler has set
\* K_EDITED in the attribute dictionaries dids.
CommitEdited(lbls, arts, dids) ==
    /\ labels' = lbls
    /\ artists' = SetEdited(arts, dids)
    /\ record_undo(lbls, SetEdited(arts, dids), StackSetEdited(undo_stack, dids),
                   SetEdited(last_artist_save, dids))

\* set_data(...) with arrays the handler has just built
NewArr(arts) == FreshIds(UsedArrs(arts, undo_stack, last_artist_save), 1)[1]

\* ------------------------------------------------- pointer, Normal mode
\* on_click, button 1, Normal mode: pick up a control point, or flip the
\* keep flag of the object under the pointer.
OnClickLeft(pos) ==
    /\ mode = NORMAL_MODE
    /\ LET hits == get_control_point(artists, pos)
           lnum == LabelAt(labels, pos)
       IN  IF hits # {}
           THEN /\ \E h \in hits :
                      /\ active_artist' = [aid |-> h[1], xy |-> << >>]
                      /\ active_index' = h[2]
                /\ ev' = "press"
                /\ UNCHANGED << to_keep, nkeep >>
           ELSE IF lnum = 0
           THEN /\ ev' = "click_nothing"
                /\ UNCHANGED << activeVars, to_keep, nkeep >>
           ELSE /\ nkeep < MaxKeep
                /\ to_keep' = [to_keep EXCEPT ![lnum + 1] = ~ @]
                /\ nkeep' = nkeep + 1
                /\ ev' = "click_keep"
                /\ UNCHANGED activeVars
    /\ raised' = ""
    /\ event' = pos
    /\ Tick
    /\ UNCHANGED << constVars, labels, artists, undoVars, mode, splitVars, deleteVars, ndrag >>

\* on_click, button 3, Normal mode: close the object of a chain the pointer
\* is inside, or open the object under the pointer.
OnClickRight(pos) ==
    /\ mode = NORMAL_MODE
    /\ LET inside == { a \in Range(artists) : contains_point(a.xy, pos) }
           lnum == LabelAt(labels, pos)
       IN  IF inside # {}
           THEN /\ Len(undo_stack) < MaxUndo
                /\ \E a \in inside :
                      LET c == close_label(labels, artists, a.label)
                      IN  Commit(c.labels, c.artists)
                /\ ev' = "close"
           ELSE IF lnum = 0
           THEN /\ ev' = "click_nothing"
                /\ UNCHANGED << labels, artists, undoVars >>
           ELSE LET cs == make_control_points(labels, lnum)
                IN  /\ Len(artists) + Len(cs) <= MaxChains
                    /\ artists' = artists \o NewArtists(artists, cs, lnum, FALSE)
                    /\ ev' = "open"
                    /\ UNCHANGED << labels, undoVars >>
    /\ raised' = ""
    /\ event' = pos
    /\ Tick
    /\ UNCHANGED << constVars, to_keep, mode, activeVars, splitVars, deleteVars, countVars >>

\* handle_mouse_moved_active_mode: move the active control point to pos
\* unless a line would cross.
HandleMouseMovedActive(pos) ==
    /\ mode # FREEHAND_DRAW_MODE
    /\ active_artist.aid # 0
    /\ IF active_artist.aid \notin { a.aid : a \in Range(artists) }
       THEN \* self.artists[self.active_artist]
            /\ raised' = "KeyError"
            /\ ev' = "drag_error"
            /\ UNCHANGED << artists, undo_stack, last_artist_save, ndrag >>
       ELSE LET act == ArtistOf(active_artist.aid)
                new_pt == Centre(pos)
            IN  IF \E b \in Range(artists) : Rejects(b, act, active_index, new_pt)
                THEN /\ raised' = ""
                     /\ ev' = "drag_rejected"
                     /\ UNCHANGED << artists, undo_stack, last_artist_save, ndrag >>
                ELSE IF active_index >= Len(act.xy)
                THEN \* data[0][self.active_index] past the end of the arrays
                     /\ raised' = "IndexError"
                     /\ ev' = "drag_error"
                     /\ UNCHANGED << artists, undo_stack, last_artist_save, ndrag >>
                ELSE LET xy == Moved(act.xy, active_index, new_pt)
                     IN  /\ ndrag < MaxDrags
                         /\ ndrag' = ndrag + 1
                         /\ artists' = SetEdited(WriteArr(artists, act.arr, xy), {act.did})
                         /\ undo_stack' = StackSetEdited(
                                StackWriteArr(undo_stack, act.arr, xy), {act.did})
                         /\ last_artist_save' = SetEdited(
                                WriteArr(last_artist_save, act.arr, xy), {act.did})
                         /\ raised' = ""
                         /\ ev' = "drag"
    /\ event' = << >>
    /\ Tick
    /\ UNCHANGED << constVars, rasterVars, last_ijv, undo_button, chains_before, mode,
                    activeVars, splitVars, deleteVars, nkeep >>

\* on_mouse_button_up outside the freehand and delete modes
OnMouseButtonUp ==
    /\ mode \notin { FREEHAND_DRAW_MODE, DELETE_MODE }
    /\ active_artist' = NoArtist
    /\ active_index' = -1
    /\ ev' = "release"
    /\ raised' = ""
    /\ event' = << >>
    /\ Tick
    /\ UNCHANGED << constVars, rasterVars, artists, undoVars, mode, splitVars, deleteVars,
                    countVars >>

\* A variant of join_objects that registers the union under the highest of the
\* selected identifiers.
join_objects_under_highest ==
    /\ mode = NORMAL_MODE
    /\ LET all_labels == Labels(artists)
       IN  IF Cardinality(all_labels) < 2
           THEN /\ ev' = "join_nothing"
                /\ UNCHANGED << labels, artists, undoVars >>
           ELSE LET object_number == SetMax(all_labels)
                    c == close_labels(labels, artists, all_labels)
                    mask == { << t[1], t[2] >> :
                                t \in { u \in flatten(c.labels) : u[3] \in all_labels } }
                    erased == [k \in DOMAIN c.labels |->
                                 { t \in c.labels[k] : t[3] \notin all_labels }]
                    lbls == restructure_labels(Append(erased, Stamp(mask, object_number)))
                    cs == make_control_points(lbls, object_number)
                IN  /\ Len(undo_stack) < MaxUndo
                    /\ Len(cs) <= MaxChains
                    /\ Commit(lbls, c.artists \o NewArtists(c.artists, cs, object_number, FALSE))
                    /\ ev' = "join"
    /\ raised' = ""
    /\ event' = << >>
    /\ Tick
    /\ UNCHANGED << constVars, to_keep, mode, activeVars, splitVars, deleteVars, countVars >>

\* ------------------------------------------------------ keys, Normal mode
\* join_objects (key J)
join_objects ==
    /\ mode = NORMAL_MODE
    /\ LET all_labels == Labels(artists)
       IN  IF Cardinality(all_labels) < 2
           THEN /\ ev' = "join_nothing"
                /\ UNCHANGED << labels, artists, undoVars >>
           ELSE LET object_number == SetMin(all_labels)
                    c == close_labels(labels, artists, all_labels)
                    mask == { << t[1], t[2] >> :
                                t \in { u \in flatten(c.labels) : u[3] \in all_labels } }
                    erased == [k \in DOMAIN c.labels |->
                                 { t \in c.labels[k] : t[3] \notin all_labels }]
                    lbls == restructure_labels(Append(erased, Stamp(mask, object_number)))
                    cs == make_control_points(lbls, object_number)
                IN  /\ Len(undo_stack) < MaxUndo
                    /\ Len(cs) <= MaxChains
                    /\ Commit(lbls, c.artists \o NewArtists(c.artists, cs, object_number, FALSE))
                    /\ ev' = "join"
    /\ raised' = ""
    /\ event' = << >>
    /\ Tick
    /\ UNCHANGED << constVars, to_keep, mode, activeVars, splitVars, deleteVars, countVars >>

\* A variant of convex_hull that registers the union itself, as a join does.
convex_hull_without_hull ==
    /\ mode = NORMAL_MODE
    /\ IF Len(artists) = 0
       THEN /\ ev' = "hull_nothing"
            /\ UNCHANGED << labels, artists, undoVars >>
       ELSE LET all_labels == Labels(artists)
                object_number == SetMin(all_labels)
                c == close_labels(labels, artists, all_labels)
                mask == { << t[1], t[2] >> :
                            t \in { u \in flatten(c.labels) : u[3] \in all_labels } }
                removed == [k \in DOMAIN c.labels |->
                              { t \in c.labels[k] : t[3] \notin all_labels }]
                lbls == replace_label(removed, mask, object_number)
                cs == make_control_points(lbls, object_number)
            IN  /\ Len(undo_stack) < MaxUndo
                /\ Len(cs) <= MaxChains
                /\ Commit(lbls, c.artists \o NewArtists(c.artists, cs, object_number, FALSE))
                /\ ev' = "hull"
    /\ raised' = ""
    /\ event' = << >>
    /\ Tick
    /\ UNCHANGED << constVars, to_keep, mode, activeVars, splitVars, deleteVars, countVars >>

\* convex_hull (key C)
convex_hull ==
    /\ mode = NORMAL_MODE
    /\ IF Len(artists) = 0
       THEN /\ ev' = "hull_nothing"
            /\ UNCHANGED << labels, artists, undoVars >>
       ELSE LET all_labels == Labels(artists)
                object_number == SetMin(all_labels)
                c == close_labels(labels, artists, all_labels)
                mask == { << t[1], t[2] >> :
                            t \in { u \in flatten(c.labels) : u[3] \in all_labels } }
                removed == [k \in DOMAIN c.labels |->
                              { t \in c.labels[k] : t[3] \notin all_labels }]
                lbls == replace_label(removed, convex_hull_image(mask), object_number)
                cs == make_control_points(lbls, object_number)
            IN  /\ Len(undo_stack) < MaxUndo
                /\ Len(cs) <= MaxChains
                /\ Commit(lbls, c.artists \o NewArtists(c.artists, cs, object_number, FALSE))
                /\ ev' = "hull"
    /\ raised' = ""
    /\ event' = << >>
    /\ Tick
    /\ UNCHANGED << constVars, to_keep, mode, activeVars, splitVars, deleteVars, countVars >>

\* The edges of chain a that add_control_point can project pt onto: those
\* with 0 < proj < llen.
Dot(pt, l0, l1) == (pt[1] - l0[1]) * (l1[1] - l0[1]) + (pt[2] - l0[2]) * (l1[2] - l0[2])

ProjEdges(a, pt) ==
    { k \in 1 .. Len(a.xy) - 1 :
        /\ Dot(pt, a.xy[k], a.xy[k + 1]) > 0
        /\ Dot(pt, a.xy[k], a.xy[k + 1]) < Dist2(a.xy[k], a.xy[k + 1]) }

\* distance2_to_line(pt, l0, l1) < distance2_to_line(pt, m0, m1)
D2Less(pt, l0, l1, m0, m1) ==
    Cross(l0, l1, pt) * Cross(l0, l1, pt) * Dist2(m0, m1)
        < Cross(m0, m1, pt) * Cross(m0, m1, pt) * Dist2(l0, l1)

\* An edge of zero length makes d2 NaN there: argmin returns it and the
\* comparison with best_distance fails, so the chain is passed over.
HasNaN(a) == \E k \in 1 .. Len(a.xy) - 1 : a.xy[k] = a.xy[k + 1]

\* np.argmin(d2): the first of the nearest edges
BestEdge(a, pt) ==
    LET F == ProjEdges(a, pt)
        best == { k \in F : \A m \in F :
                    ~ D2Less(pt, a.xy[m], a.xy[m + 1], a.xy[k], a.xy[k + 1]) }
    IN  SetMin(best)

\* The chains add_control_point can end with as best_artist.
BestArtists(arts, pt) ==
    LET ok == { a \in Range(arts) : ~ HasNaN(a) /\ ProjEdges(a, pt) # {} }
        e(a) == BestEdge(a, pt)
    IN  { a \in ok : \A b \in ok :
            ~ D2Less(pt, b.xy[e(b)], b.xy[e(b) + 1], a.xy[e(a)], a.xy[e(a) + 1]) }

\* l0 + proj * v is a point of the half-pixel lattice
OnLattice(pt, l0, l1) ==
    /\ (Dot(pt, l0, l1) * (l1[1] - l0[1])) % Dist2(l0, l1) = 0
    /\ (Dot(pt, l0, l1) * (l1[2] - l0[2])) % Dist2(l0, l1) = 0

Projection(pt, l0, l1) ==
    << l0[1] + (Dot(pt, l0, l1) * (l1[1] - l0[1])) \div Dist2(l0, l1),
       l0[2] + (Dot(pt, l0, l1) * (l1[2] - l0[2])) \div Dist2(l0, l1) >>

\* add_control_point (key A with the pointer at pos)
add_control_point(pos) ==
    /\ mode = NORMAL_MODE
    /\ LET pt == Centre(pos)
           best == BestArtists(artists, pt)
       IN  IF best = {}
           THEN /\ ev' = "add_nothing"
                /\ UNCHANGED << labels, artists, undoVars >>
           ELSE \E a \in best :
                  LET k == BestEdge(a, pt)
                      new_pt == Projection(pt, a.xy[k], a.xy[k + 1])
                      l == Slice(a.xy, 0, k) \o << new_pt >> \o Slice(a.xy, k, Len(a.xy))
                      arts == [artists EXCEPT ![IndexOf(artists, a.aid)] =
                                 [a EXCEPT !.xy = l, !.arr = NewArr(artists)]]
                  IN  /\ OnLattice(pt, a.xy[k], a.xy[k + 1])
                      /\ Len(undo_stack) < MaxUndo
                      /\ CommitEdited(labels, arts, {a.did})
                      /\ ev' = "add"
    /\ raised' = ""
    /\ event' = pos
    /\ Tick
    /\ UNCHANGED << constVars, to_keep, mode, activeVars, splitVars, deleteVars, countVars >>

\* delete_artist(artist): the planes, the chains and the dictionaries
\* marked edited afterwards.
delete_artist(lbls, arts, a) ==
    LET rest == SelectSeq(arts, LAMBDA b : b.aid # a.aid)
        others == { b \in Range(rest) : b.label = a.label }
    IN  IF others = {}
        THEN [labels |-> remove_label(lbls, a.label), artists |-> rest, dids |-> {}]
        ELSE [labels |-> lbls, artists |-> rest, dids |-> { b.did : b \in others }]

\* delete_control_point (key D with the pointer at pos)
delete_control_point(pos) ==
    /\ mode = NORMAL_MODE
    /\ LET hits == get_control_point(artists, pos)
       IN  IF hits = {}
           THEN /\ ev' = "delete_nothing"
                /\ UNCHANGED << labels, artists, undoVars >>
           ELSE \E h \in hits :
                  LET a == ArtistOf(h[1])
                      l == a.xy
                      cut == Slice(l, 0, h[2]) \o Slice(l, h[2] + 1, Len(l) - 1)
                      arts == [artists EXCEPT ![IndexOf(artists, a.aid)] =
                                 [a EXCEPT !.xy = Append(cut, cut[1]),
                                           !.arr = NewArr(artists)]]
                      d == delete_artist(labels, artists, a)
                  IN  /\ Len(undo_stack) < MaxUndo
                      /\ IF Len(l) < 4
                         THEN /\ CommitEdited(d.labels, d.artists, d.dids)
                              /\ ev' = "delete_chain"
                         ELSE /\ CommitEdited(labels, arts, {a.did})
                              /\ ev' = "delete_point"
    /\ raised' = ""
    /\ event' = pos
    /\ Tick
    /\ UNCHANGED << constVars, to_keep, mode, activeVars, splitVars, deleteVars, countVars >>

\* 20 * cos and 20 * sin of the angles 2 pi k / 12, k = 0 .. 12, in half
\* pixels, rounded to the lattice
Circle ==
    << << 40, 0 >>, << 35, 20 >>, << 20, 35 >>, << 0, 40 >>, << -20, 35 >>,
       << -35, 20 >>, << -40, 0 >>, << -35, -20 >>, << -20, -35 >>, << 0, -40 >>,
       << 20, -35 >>, << 35, -20 >>, << 40, 0 >> >>

\* A variant of new_object that numbers the object after the highest
\* identifier still present in the raster or the chains, not after len(to_keep).
new_object_reusing_free_id(pos) ==
    /\ mode = NORMAL_MODE
    /\ Len(to_keep) - 1 < MaxObjects
    /\ Len(artists) < MaxChains
    /\ Len(undo_stack) < MaxUndo
    /\ LET present == { t[3] : t \in flatten(labels) } \cup Labels(artists) \cup {0}
           object_number == SetMax(present) + 1
           c == Centre(pos)
           x(k) == Max2(0, Min2(2 * (Cols - 1), Circle[k][1] + c[1]))
           y(k) == Min2(2 * (Rows - 1), Circle[k][2] + c[2])
           xy == [k \in 1 .. 13 |-> << x(k), y(k) >>]
           new == NewArtists(artists, << [xy |-> xy, outside |-> TRUE] >>, object_number, TRUE)
       IN  /\ to_keep' = IF object_number >= Len(to_keep) THEN Append(to_keep, TRUE) ELSE to_keep
           /\ Commit(labels, artists \o new)
    /\ ev' = "new_object"
    /\ raised' = ""
    /\ event' = pos
    /\ Tick
    /\ UNCHANGED << constVars, mode, activeVars, splitVars, deleteVars, countVars >>

\* A variant of new_object that stamps the circle into the planes at once
\* instead of leaving it to the closing right click.
new_object_stamping_circle(pos) ==
    /\ mode = NORMAL_MODE
    /\ Len(to_keep) - 1 < MaxObjects
    /\ Len(artists) < MaxChains
    /\ Len(undo_stack) < MaxUndo
    /\ LET object_number == Len(to_keep)
           c == Centre(pos)
           x(k) == Max2(0, Min2(2 * (Cols - 1), Circle[k][1] + c[1]))
           y(k) == Min2(2 * (Rows - 1), Circle[k][2] + c[2])
           xy == [k \in 1 .. 13 |-> << x(k), y(k) >>]
           new == NewArtists(artists, << [xy |-> xy, outside |-> TRUE] >>, object_number, TRUE)
           mask == polygon_lines_to_mask(xy)
       IN  /\ to_keep' = Append(to_keep, TRUE)
           /\ Commit(restructure_labels(Append(labels, Stamp(mask, object_number))),
                     artists \o new)
    /\ ev' = "new_object"
    /\ raised' = ""
    /\ event' = pos
    /\ Tick
    /\ UNCHANGED << constVars, mode, activeVars, splitVars, deleteVars, countVars >>

\* new_object (key N with the pointer at pos): x is clipped on both sides,
\* y only from above.
new_object(pos) ==
    /\ mode = NORMAL_MODE
    /\ Len(to_keep) - 1 < MaxObjects
    /\ Len(artists) < MaxChains
    /\ Len(undo_stack) < MaxUndo
    /\ LET object_number == Len(to_keep)
           c == Centre(pos)
           x(k) == Max2(0, Min2(2 * (Cols - 1), Circle[k][1] + c[1]))
           y(k) == Min2(2 * (Rows - 1), Circle[k][2] + c[2])
           xy == [k \in 1 .. 13 |-> << x(k), y(k) >>]
           new == NewArtists(artists, << [xy |-> xy, outside |-> TRUE] >>, object_number, TRUE)
       IN  /\ to_keep' = Append(to_keep, TRUE)
           /\ Commit(labels, artists \o new)
    /\ ev' = "new_object"
    /\ raised' = ""
    /\ event' = pos
    /\ Tick
    /\ UNCHANGED << constVars, mode, activeVars, splitVars, deleteVars, countVars >>

\* A variant of Undo that also sets every keep flag again; the dialog's Undo
\* does not touch the flags.
Undo_resetting_keep ==
    /\ undo_stack # << >>
    /\ undo
    /\ to_keep' = [k \in DOMAIN to_keep |-> TRUE]
    /\ ev' = "undo"
    /\ raised' = ""
    /\ event' = << >>
    /\ Tick
    /\ UNCHANGED << constVars, mode, activeVars, splitVars, deleteVars, countVars >>

\* key Z in Normal mode (undo only if the stack is not empty) and the Undo
\* button while it is enabled; undo_stack.pop() on an empty stack raises.
Undo ==
    /\ \/ mode = NORMAL_MODE /\ Len(undo_stack) > 0
       \/ undo_button
    /\ IF undo_stack = << >>
       THEN /\ ev' = "undo_error"
            /\ raised' = "IndexError"
            /\ UNCHANGED << labels, artists, undoVars >>
       ELSE /\ undo
            /\ ev' = "undo"
            /\ raised' = ""
    /\ event' = << >>
    /\ Tick
    /\ UNCHANGED << constVars, to_keep, mode, activeVars, splitVars, deleteVars, countVars >>

\* remove_artists (key Escape in Normal mode)
remove_artists ==
    /\ mode = NORMAL_MODE
    /\ artists' = << >>
    /\ ev' = "escape_normal"
    /\ raised' = ""
    /\ event' = << >>
    /\ Tick
    /\ UNCHANGED << constVars, rasterVars, undoVars, mode, activeVars, splitVars,
                    deleteVars, countVars >>

\* enter_split_mode (key S)
enter_split_mode ==
    /\ mode = NORMAL_MODE
    /\ mode' = SPLIT_PICK_FIRST_MODE
    /\ ev' = "enter_split"
    /\ raised' = ""
    /\ event' = << >>
    /\ Tick
    /\ UNCHANGED << constVars, rasterVars, artists, undoVars, activeVars, splitVars,
                    deleteVars, countVars >>

\* exit_split_mode (key Escape in the split modes)
exit_split_mode ==
    /\ mode \in { SPLIT_PICK_FIRST_MODE, SPLIT_PICK_SECOND_MODE }
    /\ split_artist' = IF mode = SPLIT_PICK_SECOND_MODE THEN FALSE ELSE split_artist
    /\ mode' = NORMAL_MODE
    /\ ev' = "escape_split"
    /\ raised' = ""
    /\ event' = << >>
    /\ Tick
    /\ UNCHANGED << constVars, rasterVars, artists, undoVars, activeVars,
                    split_pick_artist, split_pick_index, deleteVars, countVars >>

\* enter_freehand_draw_mode (key F)
enter_freehand_draw_mode ==
    /\ mode = NORMAL_MODE
    /\ mode' = FREEHAND_DRAW_MODE
    /\ active_artist' = NoArtist
    /\ ev' = "enter_freehand"
    /\ raised' = ""
    /\ event' = << >>
    /\ Tick
    /\ UNCHANGED << constVars, rasterVars, artists, undoVars, active_index, splitVars,
                    deleteVars, countVars >>

\* exit_freehand_draw_mode (any key in the freehand mode, Escape among them)
exit_freehand_draw_mode ==
    /\ mode = FREEHAND_DRAW_MODE
    /\ active_artist' = NoArtist
    /\ mode' = NORMAL_MODE
    /\ ev' = "escape_freehand"
    /\ raised' = ""
    /\ event' = << >>
    /\ Tick
    /\ UNCHANGED << constVars, rasterVars, artists, undoVars, active_index, splitVars,
                    deleteVars, countVars >>

\* enter_delete_mode (key X)
enter_delete_mode ==
    /\ mode = NORMAL_MODE
    /\ mode' = DELETE_MODE
    /\ delete_mode_start' = << >>
    /\ delete_mode_filter' = << >>
    /\ ev' = "enter_delete"
    /\ raised' = ""
    /\ event' = << >>
    /\ Tick
    /\ UNCHANGED << constVars, rasterVars, artists, undoVars, activeVars, splitVars,
                    delete_mode_artist, delete_mode_rect_artist, countVars >>

\* A variant of exit_delete_mode that forgets to remove the rubber band.
exit_delete_mode_keeping_rectangle ==
    /\ mode = DELETE_MODE
    /\ delete_mode_artist' = FALSE
    /\ delete_mode_start' = << >>
    /\ mode' = NORMAL_MODE
    /\ ev' = "escape_delete"
    /\ raised' = ""
    /\ event' = << >>
    /\ Tick
    /\ UNCHANGED << constVars, rasterVars, artists, undoVars, activeVars, splitVars,
                    delete_mode_filter, delete_mode_rect_artist, countVars >>

\* exit_delete_mode (key Escape in the delete mode)
exit_delete_mode ==
    /\ mode = DELETE_MODE
    /\ delete_mode_artist' = FALSE
    /\ delete_mode_rect_artist' = FALSE
    /\ delete_mode_start' = << >>
    /\ mode' = NORMAL_MODE
    /\ ev' = "escape_delete"
    /\ raised' = ""
    /\ event' = << >>
    /\ Tick
    /\ UNCHANGED << constVars, rasterVars, artists, undoVars, activeVars, splitVars,
                    delete_mode_filter, countVars >>

\* on_keep, on_remove, on_toggle (the Keep, Remove and Toggle commands)
on_keep ==
    /\ nkeep < MaxKeep
    /\ nkeep' = nkeep + 1
    /\ to_keep' = [k \in DOMAIN to_keep |-> IF k = 1 THEN to_keep[k] ELSE TRUE]
    /\ ev' = "keep"
    /\ raised' = ""
    /\ event' = << >>
    /\ Tick
    /\ UNCHANGED << constVars, labels, artists, undoVars, mode, activeVars, splitVars,
                    deleteVars, ndrag >>

on_remove ==
    /\ nkeep < MaxKeep
    /\ nkeep' = nkeep + 1
    /\ to_keep' = [k \in DOMAIN to_keep |-> IF k = 1 THEN to_keep[k] ELSE FALSE]
    /\ ev' = "remove"
    /\ raised' = ""
    /\ event' = << >>
    /\ Tick
    /\ UNCHANGED << constVars, labels, artists, undoVars, mode, activeVars, splitVars,
                    deleteVars, ndrag >>

\* A variant of on_toggle that negates the flag at index 0 as well.
on_toggle_with_index_0 ==
    /\ nkeep < MaxKeep
    /\ nkeep' = nkeep + 1
    /\ to_keep' = [k \in DOMAIN to_keep |-> ~ to_keep[k]]
    /\ ev' = "toggle"
    /\ raised' = ""
    /\ event' = << >>
    /\ Tick
    /\ UNCHANGED << constVars, labels, artists, undoVars, mode, activeVars, splitVars,
                    deleteVars, ndrag >>

on_toggle ==
    /\ nkeep < MaxKeep
    /\ nkeep' = nkeep + 1
    /\ to_keep' = [k \in DOMAIN to_keep |-> IF k = 1 THEN to_keep[k] ELSE ~ to_keep[k]]
    /\ ev' = "toggle"
    /\ raised' = ""
    /\ event' = << >>
    /\ Tick
    /\ UNCHANGED << constVars, labels, artists, undoVars, mode, activeVars, splitVars,
                    deleteVars, ndrag >>

\* ------------------------------------------------------------ split mode
\* on_split_first_click
on_split_first_click(pos) ==
    /\ mode = SPLIT_PICK_FIRST_MODE
    /\ LET hits == get_control_point(artists, pos)
       IN  IF hits = {}
           THEN /\ ev' = "pick_nothing"
                /\ UNCHANGED << mode, splitVars >>
           ELSE /\ \E h \in hits :
                      /\ split_pick_artist' = h[1]
                      /\ split_pick_index' = h[2]
                /\ split_artist' = TRUE
                /\ mode' = SPLIT_PICK_SECOND_MODE
                /\ ev' = "pick_first"
    /\ raised' = ""
    /\ event' = pos
    /\ Tick
    /\ UNCHANGED << constVars, rasterVars, artists, undoVars, activeVars, deleteVars,
                    countVars >>

\* A variant of ok_to_split without the test for the first and last points.
ok_to_split_without_wrap(pick, pick_index, first, first_index) ==
    IF pick.label # first.label THEN FALSE
    ELSE IF pick.aid = first.aid
    THEN LET min_index == Min2(pick_index, first_index)
             max_index == Max2(pick_index, first_index)
         IN  /\ ~ (max_index - min_index < 2)
    ELSE pick.outside # first.outside

\* ok_to_split(pick_artist, pick_index) against the first pick (first, first_index)
ok_to_split(pick, pick_index, first, first_index) ==
    IF pick.label # first.label THEN FALSE
    ELSE IF pick.aid = first.aid
    THEN LET min_index == Min2(pick_index, first_index)
             max_index == Max2(pick_index, first_index)
         IN  /\ ~ (max_index - min_index < 2)
             /\ ~ (Len(pick.xy) - max_index <= 2 /\ min_index = 0)
    ELSE pick.outside # first.outside

\* get_area, doubled
get_area2(xy) ==
    LET RECURSIVE Sum(_)
        Sum(k) == IF k = 0 THEN 0
                  ELSE (xy[k][1] + xy[k + 1][1]) * (xy[k][2] - xy[k + 1][2]) + Sum(k - 1)
    IN  Abs(Sum(Len(xy) - 1))

\* The indices get_split_points takes its two neighbours from (0-based).
SplitLeft(xy, idx) == IF idx = 0 THEN Len(xy) - 2 ELSE idx - 1

SplitRight(xy, idx) ==
    IF idx = Len(xy) - 2 THEN 0 ELSE IF idx = Len(xy) - 1 THEN 1 ELSE idx + 1

Mid(a, b) == << (a[1] + b[1]) \div 2, (a[2] + b[2]) \div 2 >>

\* get_split_points(artist, idx): the points midway to the previous and to
\* the next point
get_split_points(xy, idx) ==
    << Mid(xy[SplitLeft(xy, idx) + 1], xy[idx + 1]),
       Mid(xy[SplitRight(xy, idx) + 1], xy[idx + 1]) >>

\* both midpoints are points of the half-pixel lattice
MidOnLattice(xy, idx) ==
    \A n \in { SplitLeft(xy, idx), SplitRight(xy, idx) } : \A c \in 1 .. 2 :
        (xy[n + 1][c] + xy[idx + 1][c]) % 2 = 0

\* The handler's edits followed by record_undo, where K_EDITED was set in
\* dictionaries dids that arts no longer holds.
CommitMarked(lbls, arts, dids) ==
    /\ labels' = lbls
    /\ artists' = arts
    /\ record_undo(lbls, arts, StackSetEdited(undo_stack, dids),
                   SetEdited(last_artist_save, dids))

\* A variant whose second polygon stops before the point at idx1.
SplitOutside_without_pj(pick, idx0, idx1) ==
    LET xy == pick.xy
        old_object_number == pick.label
        new_object_number == Len(to_keep)
        xy0 == Slice(xy, 0, idx0 + 1) \o Slice(xy, idx1, Len(xy))
        xy1 == Slice(xy, idx0, idx1) \o Slice(xy, idx0, idx0 + 1)
        arts0 == [artists EXCEPT ![IndexOf(artists, pick.aid)] =
                    [pick EXCEPT !.xy = xy0, !.edited = TRUE]]
        arts1 == Append(arts0, [pick EXCEPT !.xy = xy1, !.label = new_object_number,
                                            !.edited = TRUE, !.aid = -2])
        holes == { a \in Range(arts1) : ~ a.outside /\ a.label = old_object_number }
        hmask == UNION { polygon_lines_to_mask(a.xy) : a \in holes }
        c0 == close_label(labels, arts1, old_object_number)
        c1 == close_label(c0.labels, c0.artists, new_object_number)
        lbls == [k \in DOMAIN c1.labels |->
                   { t \in c1.labels[k] :
                       ~ (<< t[1], t[2] >> \in hmask /\
                          t[3] \in { old_object_number, new_object_number }) }]
        cs0 == make_control_points(lbls, old_object_number)
        cs1 == make_control_points(lbls, new_object_number)
        arts2 == c1.artists \o NewArtists(c1.artists, cs0, old_object_number, FALSE)
        arts3 == arts2 \o NewArtists(arts2, cs1, new_object_number, FALSE)
    IN  /\ Len(to_keep) - 1 < MaxObjects
        /\ Len(arts3) <= MaxChains
        /\ to_keep' = Append(to_keep, TRUE)
        /\ CommitMarked(lbls, arts3, {pick.did})
        /\ ev' = "split_outside"

\* on_split_second_click, both picks on one outside chain: two objects
SplitOutside(pick, idx0, idx1) ==
    LET xy == pick.xy
        old_object_number == pick.label
        new_object_number == Len(to_keep)
        xy0 == Slice(xy, 0, idx0 + 1) \o Slice(xy, idx1, Len(xy))
        xy1 == Slice(xy, idx0, idx1 + 1) \o Slice(xy, idx0, idx0 + 1)
        arts0 == [artists EXCEPT ![IndexOf(artists, pick.aid)] =
                    [pick EXCEPT !.xy = xy0, !.edited = TRUE]]
        arts1 == Append(arts0, [pick EXCEPT !.xy = xy1, !.label = new_object_number,
                                            !.edited = TRUE, !.aid = -2])
        holes == { a \in Range(arts1) : ~ a.outside /\ a.label = old_object_number }
        hmask == UNION { polygon_lines_to_mask(a.xy) : a \in holes }
        c0 == close_label(labels, arts1, old_object_number)
        c1 == close_label(c0.labels, c0.artists, new_object_number)
        lbls == [k \in DOMAIN c1.labels |->
                   { t \in c1.labels[k] :
                       ~ (<< t[1], t[2] >> \in hmask /\
                          t[3] \in { old_object_number, new_object_number }) }]
        cs0 == make_control_points(lbls, old_object_number)
        cs1 == make_control_points(lbls, new_object_number)
        arts2 == c1.artists \o NewArtists(c1.artists, cs0, old_object_number, FALSE)
        arts3 == arts2 \o NewArtists(arts2, cs1, new_object_number, FALSE)
    IN  /\ Len(to_keep) - 1 < MaxObjects
        /\ Len(arts3) <= MaxChains
        /\ to_keep' = Append(to_keep, TRUE)
        /\ CommitMarked(lbls, arts3, {pick.did})
        /\ ev' = "split_outside"

\* on_split_second_click, both picks on one hole chain: two holes
SplitHole(pick, idx0, idx1) ==
    LET xy == pick.xy
        s0 == get_split_points(xy, idx0)
        s1 == get_split_points(xy, idx1)
        xy0 == Slice(xy, 0, idx0) \o << s0[1], s1[2] >> \o Slice(xy, idx1 + 1, Len(xy))
        xy1 == << s1[1], s0[2] >> \o Slice(xy, idx0 + 1, idx1) \o << s1[1] >>
        arts0 == [artists EXCEPT ![IndexOf(artists, pick.aid)] =
                    [pick EXCEPT !.xy = xy0, !.arr = NewArr(artists)]]
        new == NewArtists(arts0, << [xy |-> xy1, outside |-> FALSE] >>, pick.label, TRUE)
    IN  /\ MidOnLattice(xy, idx0) /\ MidOnLattice(xy, idx1)
        /\ Len(artists) < MaxChains
        /\ Commit(labels, arts0 \o new)
        /\ UNCHANGED to_keep
        /\ ev' = "split_hole"

\* A variant that joins the chains through the picked points themselves.
SplitBridge_through_picked_points(pick, pick_index, first, first_index) ==
    LET swap == ~ (get_area2(first.xy) > get_area2(pick.xy))
        outside_artist == IF swap THEN pick ELSE first
        inside_artist == IF swap THEN first ELSE pick
        oi == IF swap THEN pick_index ELSE first_index
        ii == IF swap THEN first_index ELSE pick_index
        xy0 == outside_artist.xy
        xy1 == inside_artist.xy
        so == << xy0[oi + 1], xy0[oi + 1] >>
        si == << xy1[ii + 1], xy1[ii + 1] >>
        raw == Slice(xy0, 0, oi) \o << so[1], si[2] >> \o Slice(xy1, ii + 1, Len(xy1) - 1)
                 \o Slice(xy1, 0, ii) \o << si[1], so[2] >> \o Slice(xy0, oi + 1, Len(xy0))
        xy == [raw EXCEPT ![Len(raw)] = raw[1]]
        object_number == outside_artist.label
        arts0 == SelectSeq(artists, LAMBDA a : a.aid # inside_artist.aid)
        arts1 == [arts0 EXCEPT ![IndexOf(arts0, outside_artist.aid)] =
                    [outside_artist EXCEPT !.xy = xy, !.edited = TRUE]]
        c == close_label(labels, arts1, object_number)
        cs == make_control_points(c.labels, object_number)
    IN  /\ MidOnLattice(xy0, oi) /\ MidOnLattice(xy1, ii)
        /\ Len(c.artists) + Len(cs) <= MaxChains
        /\ CommitMarked(c.labels, c.artists \o NewArtists(c.artists, cs, object_number, FALSE),
                        {outside_artist.did})
        /\ UNCHANGED to_keep
        /\ ev' = "split_bridge"

\* on_split_second_click, the picks on an outside chain and a hole chain of
\* one object: the two chains become one
SplitBridge(pick, pick_index, first, first_index) ==
    LET swap == ~ (get_area2(first.xy) > get_area2(pick.xy))
        outside_artist == IF swap THEN pick ELSE first
        inside_artist == IF swap THEN first ELSE pick
        oi == IF swap THEN pick_index ELSE first_index
        ii == IF swap THEN first_index ELSE pick_index
        xy0 == outside_artist.xy
        xy1 == inside_artist.xy
        so == get_split_points(xy0, oi)
        si == get_split_points(xy1, ii)
        raw == Slice(xy0, 0, oi) \o << so[1], si[2] >> \o Slice(xy1, ii + 1, Len(xy1) - 1)
                 \o Slice(xy1, 0, ii) \o << si[1], so[2] >> \o Slice(xy0, oi + 1, Len(xy0))
        xy == [raw EXCEPT ![Len(raw)] = raw[1]]
        object_number == outside_artist.label
        arts0 == SelectSeq(artists, LAMBDA a : a.aid # inside_artist.aid)
        arts1 == [arts0 EXCEPT ![IndexOf(arts0, outside_artist.aid)] =
                    [outside_artist EXCEPT !.xy = xy, !.edited = TRUE]]
        c == close_label(labels, arts1, object_number)
        cs == make_control_points(c.labels, object_number)
    IN  /\ MidOnLattice(xy0, oi) /\ MidOnLattice(xy1, ii)
        /\ Len(c.artists) + Len(cs) <= MaxChains
        /\ CommitMarked(c.labels, c.artists \o NewArtists(c.artists, cs, object_number, FALSE),
                        {outside_artist.did})
        /\ UNCHANGED to_keep
        /\ ev' = "split_bridge"

\* on_split_second_click; an accepted split ends with exit_split_mode
on_split_second_click(pos) ==
    /\ mode = SPLIT_PICK_SECOND_MODE
    /\ LET hits == get_control_point(artists, pos)
       IN  IF hits = {}
           THEN /\ ev' = "pick_nothing"
                /\ raised' = ""
                /\ UNCHANGED << rasterVars, artists, undoVars, mode, split_artist >>
           ELSE IF split_pick_artist \notin { a.aid : a \in Range(artists) }
           THEN \* ok_to_split: self.artists[self.split_pick_artist]
                /\ ev' = "pick_error"
                /\ raised' = "KeyError"
                /\ UNCHANGED << rasterVars, artists, undoVars, mode, split_artist >>
           ELSE \E h \in hits :
                  LET pick == ArtistOf(h[1])
                      first == ArtistOf(split_pick_artist)
                      idx0 == Min2(h[2], split_pick_index)
                      idx1 == Max2(h[2], split_pick_index)
                  IN  IF ~ ok_to_split(pick, h[2], first, split_pick_index)
                      THEN /\ ev' = "pick_rejected"
                           /\ raised' = ""
                           /\ UNCHANGED << rasterVars, artists, undoVars, mode, split_artist >>
                      ELSE /\ Len(undo_stack) < MaxUndo
                           /\ IF pick.aid # first.aid
                              THEN SplitBridge(pick, h[2], first, split_pick_index)
                              ELSE IF pick.outside
                              THEN SplitOutside(pick, idx0, idx1)
                              ELSE SplitHole(pick, idx0, idx1)
                           /\ split_artist' = FALSE
                           /\ mode' = NORMAL_MODE
                           /\ raised' = ""
    /\ event' = pos
    /\ Tick
    /\ UNCHANGED << constVars, activeVars, split_pick_artist, split_pick_index, deleteVars,
                    countVars >>

\* --------------------------------------------------------- freehand mode
\* on_freehand_draw_click: a new stroke of one point
on_freehand_draw_click(pos) ==
    /\ mode = FREEHAND_DRAW_MODE
    /\ active_artist' = [aid |-> -1, xy |-> << Centre(pos) >>]
    /\ ev' = "stroke_start"
    /\ raised' = ""
    /\ event' = << >>
    /\ Tick
    /\ UNCHANGED << constVars, rasterVars, artists, undoVars, mode, active_index, splitVars,
                    deleteVars, countVars >>

\* handle_mouse_moved_freehand_draw_mode with a stroke started
handle_mouse_moved_freehand_draw_mode(pos) ==
    /\ mode = FREEHAND_DRAW_MODE
    /\ active_artist.aid # 0
    /\ Len(active_artist.xy) < MaxStroke
    /\ active_artist' = [active_artist EXCEPT !.xy = Append(@, Centre(pos))]
    /\ ev' = "stroke_move"
    /\ raised' = ""
    /\ event' = << >>
    /\ Tick
    /\ UNCHANGED << constVars, rasterVars, artists, undoVars, mode, active_index, splitVars,
                    deleteVars, countVars >>

\* add_label giving the mask the identifier of the newest existing object
add_label_reusing_last_id(lbls, mask, object_number) ==
    restructure_labels(Append(lbls, Stamp(mask, object_number - 1)))

\* add_label(mask): the planes with the mask as object len(to_keep)
add_label(lbls, mask, object_number) ==
    restructure_labels(Append(lbls, Stamp(mask, object_number)))

\* on_mouse_button_up_freehand_draw_mode with the pointer at pos
on_mouse_button_up_freehand_draw_mode(pos) ==
    /\ mode = FREEHAND_DRAW_MODE
    /\ IF active_artist.aid = 0
       THEN \* self.active_artist.get_xydata() on None
            /\ raised' = "AttributeError"
            /\ ev' = "stroke_error"
            /\ UNCHANGED << rasterVars, artists, undoVars, mode, active_artist >>
       ELSE LET xydata == Append(Append(active_artist.xy, Centre(pos)), active_artist.xy[1])
                mask == polygon_lines_to_mask(xydata)
            IN  /\ Len(to_keep) - 1 < MaxObjects
                /\ Len(undo_stack) < MaxUndo
                /\ to_keep' = Append(to_keep, TRUE)
                /\ active_artist' = NoArtist
                /\ mode' = NORMAL_MODE
                /\ Commit(add_label(labels, mask, Len(to_keep)), artists)
                /\ raised' = ""
                /\ ev' = "stroke_end"
    /\ event' = pos
    /\ Tick
    /\ UNCHANGED << constVars, active_index, splitVars, deleteVars, countVars >>

\* ----------------------------------------------------------- delete mode
\* on_delete_click, button 1
on_delete_click(pos) ==
    /\ mode = DELETE_MODE
    /\ delete_mode_start' = Centre(pos)
    /\ delete_mode_rect_artist' = TRUE
    /\ ev' = "rect_start"
    /\ raised' = ""
    /\ event' = << >>
    /\ Tick
    /\ UNCHANGED << constVars, rasterVars, artists, undoVars, mode, activeVars, splitVars,
                    delete_mode_filter, delete_mode_artist, countVars >>

\* A variant of the filter that takes in the whole band of columns.
InFilter_ignoring_rows(f, p) == p[1] >= f[1] /\ p[1] < f[2]

\* delete_mode_filter(x, y) for the filter f = <<xmin, xmax, ymin, ymax>>
InFilter(f, p) == p[1] >= f[1] /\ p[1] < f[2] /\ p[2] >= f[3] /\ p[2] < f[4]

\* on_mouse_moved_delete_mode with a rectangle started
on_mouse_moved_delete_mode(pos) ==
    /\ mode = DELETE_MODE
    /\ active_artist.aid = 0
    /\ delete_mode_start # << >>
    /\ LET c == Centre(pos)
           f == << Min2(delete_mode_start[1], c[1]), Max2(delete_mode_start[1], c[1]),
                   Min2(delete_mode_start[2], c[2]), Max2(delete_mode_start[2], c[2]) >>
       IN  /\ delete_mode_filter' = f
           /\ delete_mode_artist' =
                 (delete_mode_artist \/
                  \E a \in Range(artists) : \E k \in DOMAIN a.xy : InFilter(f, a.xy[k]))
    /\ ev' = "rect_move"
    /\ raised' = ""
    /\ event' = << >>
    /\ Tick
    /\ UNCHANGED << constVars, rasterVars, artists, undoVars, mode, activeVars, splitVars,
                    delete_mode_start, delete_mode_rect_artist, countVars >>

\* The points of xy the filter leaves (x[f], y[f] for f = ~ filter)
Kept(f, xy) == SelectSeq(xy, LAMBDA p : ~ InFilter(f, p))

\* on_mouse_button_up_delete_mode: the chain is deleted outright
RegionDeletes(f, a) ==
    LET xy == Kept(f, a.xy)
    IN  /\ Len(xy) # Len(a.xy)
        /\ (Len(xy) < 3 \/ (Len(xy) = 3 /\ xy[1] = xy[3]))

\* on_mouse_button_up_delete_mode: the chain is rewritten
RegionEdits(f, a) == Len(Kept(f, a.xy)) # Len(a.xy) /\ ~ RegionDeletes(f, a)

\* The rewritten points: closed only if the first and last points left
\* differ in both coordinates.
RegionKept(f, a) ==
    LET xy == Kept(f, a.xy)
    IN  IF xy[1][1] # xy[Len(xy)][1] /\ xy[1][2] # xy[Len(xy)][2]
        THEN Append(xy, xy[1]) ELSE xy

\* on_mouse_button_up_delete_mode; it ends with exit_delete_mode and
\* record_undo whatever was selected
on_mouse_button_up_delete_mode ==
    /\ mode = DELETE_MODE
    /\ Len(undo_stack) < MaxUndo
    /\ LET f == delete_mode_filter
           none == f = << >>
           gone == IF none THEN {} ELSE { k \in DOMAIN artists : RegionDeletes(f, artists[k]) }
           edit == IF none THEN {} ELSE { k \in DOMAIN artists : RegionEdits(f, artists[k]) }
           arrs == FreshIds(UsedArrs(artists, undo_stack, last_artist_save), Len(artists))
           arts0 == [k \in DOMAIN artists |->
                       IF k \in edit
                       THEN [artists[k] EXCEPT !.xy = RegionKept(f, artists[k]),
                                               !.arr = arrs[k], !.edited = TRUE]
                       ELSE artists[k]]
           object_numbers == { artists[k].label : k \in gone }
           left == { k \in DOMAIN artists \ gone : artists[k].label \in object_numbers }
           \* one chain of each object that lost a chain is marked edited
       IN  \E marks \in SUBSET left :
             LET arts1 == [k \in DOMAIN arts0 |->
                             IF k \in marks THEN [arts0[k] EXCEPT !.edited = TRUE]
                             ELSE arts0[k]]
                 arts2 == Compress(arts1, DOMAIN artists \ gone, 1)
                 removed == { v \in object_numbers : \A k \in left : artists[k].label # v }
                 lbls == [k \in DOMAIN labels |-> { t \in labels[k] : t[3] \notin removed }]
             IN  /\ \A v \in object_numbers \ removed :
                        Cardinality({ k \in marks : artists[k].label = v }) = 1
                 /\ CommitMarked(lbls, arts2,
                                 { artists[k].did : k \in edit \cup marks })
    /\ delete_mode_artist' = FALSE
    /\ delete_mode_rect_artist' = FALSE
    /\ delete_mode_start' = << >>
    /\ mode' = NORMAL_MODE
    /\ ev' = "rect_end"
    /\ raised' = ""
    /\ event' = << >>
    /\ Tick
    /\ UNCHANGED << constVars, to_keep, activeVars, splitVars, delete_mode_filter, countVars >>

\* ---------------------------------------------------------- reset, close
\* A variant of reset that leaves the Undo button as it is.
reset_leaving_undo_button ==
    LET nlabels == SetMax({ t[3] : t \in flatten(orig_labels) } \cup {0})
    IN  /\ labels' = orig_labels
        /\ to_keep' = [k \in 1 .. nlabels + 1 |-> TRUE]
        /\ artists' = << >>
        /\ undo_stack' = << >>
        /\ UNCHANGED undo_button
        /\ last_ijv' = calculate_ijv(orig_labels)
        /\ last_artist_save' = << >>
        /\ chains_before' = << >>

\* A variant of reset that leaves the keep flags as they are.
reset_leaving_keep_flags ==
    /\ labels' = orig_labels
    /\ UNCHANGED to_keep
    /\ artists' = << >>
    /\ undo_stack' = << >>
    /\ undo_button' = FALSE
    /\ last_ijv' = calculate_ijv(orig_labels)
    /\ last_artist_save' = << >>
    /\ chains_before' = << >>

\* A variant of reset that keeps the undo stack and its snapshots.
reset_keeping_undo_stack ==
    LET nlabels == SetMax({ t[3] : t \in flatten(orig_labels) } \cup {0})
    IN  /\ labels' = orig_labels
        /\ to_keep' = [k \in 1 .. nlabels + 1 |-> TRUE]
        /\ artists' = << >>
        /\ last_ijv' = calculate_ijv(orig_labels)
        /\ UNCHANGED << undo_stack, undo_button, last_artist_save, chains_before >>

\* reset: copies of the construction-time planes, one true flag for each
\* identifier up to their maximum, no chain, no undo entry.
reset ==
    LET nlabels == SetMax({ t[3] : t \in flatten(orig_labels) } \cup {0})
    IN  /\ labels' = orig_labels
        /\ to_keep' = [k \in 1 .. nlabels + 1 |-> TRUE]
        /\ artists' = << >>
        /\ undo_stack' = << >>
        /\ undo_button' = FALSE
        /\ last_ijv' = calculate_ijv(orig_labels)
        /\ last_artist_save' = << >>
        /\ chains_before' = << >>

\* on_reset (the Reset button and menu entry)
on_reset ==
    /\ reset
    /\ ev' = "reset"
    /\ raised' = ""
    /\ event' = << >>
    /\ Tick
    /\ UNCHANGED << constVars, mode, activeVars, splitVars, deleteVars, countVars >>

RECURSIVE remove_labels(_, _)
\* for idx in np.argwhere(~to_keep): if idx > 0: self.remove_label(idx)
remove_labels(lbls, ids) ==
    IF ids = {} THEN lbls
    ELSE LET idx == SetMin(ids)
         IN  remove_labels(remove_label(lbls, idx), ids \ {idx})

\* A variant of the fix-up that skips the closing of the open chains.
fix_up_without_closing(lbls, arts, keep) ==
    LET unkept == { idx \in 1 .. Len(keep) - 1 : ~ keep[idx + 1] }
    IN  [labels |-> remove_labels(lbls, unkept), artists |-> arts]

\* on_close with return code OK: every label with open chains is closed,
\* then every identifier whose flag is false is removed from the planes.
fix_up(lbls, arts, keep) ==
    LET open_labels == Labels(arts)
        c == close_labels(lbls, arts, open_labels)
        unkept == { idx \in 1 .. Len(keep) - 1 : ~ keep[idx + 1] }
    IN  [labels |-> remove_labels(c.labels, unkept), artists |-> c.artists]

\* on_resume (the Done button): EndModal(wx.OK), then on_close. The dialog
\* takes no event after it.
on_resume ==
    /\ nsteps < MaxSteps
    /\ nsteps' = MaxSteps
    /\ LET f == fix_up(labels, artists, to_keep)
       IN  /\ labels' = f.labels
           /\ artists' = f.artists
    /\ ev' = "done"
    /\ raised' = ""
    /\ event' = << >>
    /\ UNCHANGED << constVars, to_keep, undoVars, mode, activeVars, splitVars, deleteVars,
                    countVars >>

\* on_close from the window's close box: the return code is not wx.OK,
\* nothing is fixed up, and the event is not passed on.
on_close ==
    /\ ev' = "close_box"
    /\ raised' = ""
    /\ event' = << >>
    /\ Tick
    /\ UNCHANGED << constVars, rasterVars, artists, undoVars, mode, activeVars, splitVars,
                    deleteVars, countVars >>

\* ------------------------------------------------------------------ Next
Next ==
    \/ \E pos \in Pixels : OnClickLeft(pos)
    \/ \E pos \in Pixels : OnClickRight(pos)
    \/ \E pos \in Pixels : HandleMouseMovedActive(pos)
    \/ OnMouseButtonUp
    \/ join_objects
    \/ convex_hull
    \/ \E pos \in Pixels : add_control_point(pos)
    \/ \E pos \in Pixels : delete_control_point(pos)
    \/ \E pos \in Pixels : new_object(pos)
    \/ Undo
    \/ remove_artists
    \/ enter_split_mode
    \/ exit_split_mode
    \/ \E pos \in Pixels : on_split_first_click(pos)
    \/ \E pos \in Pixels : on_split_second_click(pos)
    \/ enter_freehand_draw_mode
    \/ exit_freehand_draw_mode
    \/ \E pos \in Pixels : on_freehand_draw_click(pos)
    \/ \E pos \in Pixels : handle_mouse_moved_freehand_draw_mode(pos)
    \/ \E pos \in Pixels : on_mouse_button_up_freehand_draw_mode(pos)
    \/ enter_delete_mode
    \/ exit_delete_mode
    \/ \E pos \in Pixels : on_delete_click(pos)
    \/ \E pos \in Pixels : on_mouse_moved_delete_mode(pos)
    \/ on_mouse_button_up_delete_mode
    \/ on_keep
    \/ on_remove
    \/ on_toggle
    \/ on_reset
    \/ on_resume
    \/ on_close

Spec == Init /\ [][Next]_vars

\* -------------------------------------------------------------- sessions
\* Spec is the whole dialog. The properties below are checked under
\* sessions: Next restricted to the gestures a property is about, on the
\* inputs and pointer positions that exercise it.

\* Undo session: open, edit, close and delete chains, flip keep flags, undo.
UndoPlanes == { OnePixel, TwoBlocks }

UndoPointer == { << 0, 0 >>, << 1, 1 >>, << 3, 1 >> }

InitUndo == Init /\ orig_labels \in UndoPlanes /\ ~ allow_overlap

NextUndo ==
    \/ \E pos \in UndoPointer : OnClickLeft(pos)
    \/ \E pos \in UndoPointer : OnClickRight(pos)
    \/ \E pos \in UndoPointer : HandleMouseMovedActive(pos)
    \/ OnMouseButtonUp
    \/ \E pos \in UndoPointer : delete_control_point(pos)
    \/ Undo
    \/ on_toggle

SpecUndo == InitUndo /\ [][NextUndo]_vars

\* ------------------------------------------------------------ properties
\* The keep flags as __init__ leaves them.
InitialKeep == [k \in 1 .. SetMax({ t[3] : t \in flatten(orig_labels) } \cup {0}) + 1 |-> TRUE]

\* C1: when undo has taken back every committed operation of the session,
\* the (row, col, id) triples of the planes are those of the planes the
\* session was constructed with.
C1_UndoRestoresRaster ==
    (ev = "undo" /\ undo_stack = << >>) => flatten(labels) = flatten(orig_labels)

\* C2 as stated: when undo has taken back every committed operation, the
\* keep flags are as at construction, same length and all true.
C2_UndoRestoresKeepFlags ==
    (ev = "undo" /\ undo_stack = << >>) => to_keep = InitialKeep

\* C2, amended: undo leaves the keep flags exactly as they are, their length
\* and every flag.
C2_UndoLeavesKeepFlags == [][ev' = "undo" => to_keep' = to_keep]_vars

\* C2: undo has run with a keep flag cleared.
C2_UndoWithFlagCleared == ev = "undo" /\ \E k \in DOMAIN to_keep : ~ to_keep[k]

\* C3: undo leaves the chains exactly as they were when the operation it
\* takes back began: same points, labels, polarities and edited marks.
C3_UndoRestoresChains ==
    [][ev' = "undo" => ChainSet(artists') = Last(chains_before)]_vars

\* C4: the diff record_undo pushes is the symmetric difference of last_ijv
\* and the current triples, each triple once, tagged 0 if only current and 1
\* if only previous.
C4_DiffIsSymmetricDifference ==
    [][Len(undo_stack') = Len(undo_stack) + 1 =>
         LET diff == Last(undo_stack').ijvx
             old == Range(last_ijv)
             new == flatten(labels')
         IN  /\ Range(diff) = { << t[1], t[2], t[3], 0 >> : t \in new \ old }
                                \cup { << t[1], t[2], t[3], 1 >> : t \in old \ new }
             /\ Len(diff) = Cardinality(Range(diff))]_vars

\* Segments a1-a2 and b1-b2 cross at a point inside both.
ProperCross(a1, a2, b1, b2) ==
    /\ Sign(Cross(a1, a2, b1)) * Sign(Cross(a1, a2, b2)) < 0
    /\ Sign(Cross(b1, b2, a1)) * Sign(Cross(b1, b2, a2)) < 0

\* The two edges at point index (0-based) of the closed chain xy cross edge
\* k of the chain other (from other[k] to other[k + 1]).
EdgesCross(xy, index, other, k) ==
    LET n == Len(xy) - 1
        before_pt == xy[((n - 1 + index) % n) + 1]
        after_pt == xy[((index + 1) % n) + 1]
        pt == xy[index + 1]
    IN  \/ ProperCross(before_pt, pt, other[k], other[k + 1])
        \/ ProperCross(pt, after_pt, other[k], other[k + 1])

\* C5: with overlap disabled, a drag that is accepted never leaves the two
\* edges at the dragged point crossing another edge of its own chain: a
\* candidate position that would make them cross is refused.
C5_NoSelfCrossingDrag ==
    [][(ev' = "drag" /\ ~ allow_overlap) =>
         \A a \in Range(artists') :
            a.aid = active_artist.aid =>
               \A k \in 1 .. Len(a.xy) - 1 : ~ EdgesCross(a.xy, active_index, a.xy, k)]_vars

\* C6: with overlap disabled, a drag that is accepted never leaves the two
\* edges at the dragged point crossing an edge of a chain of another object.
C6_NoCrossingOtherObject ==
    [][(ev' = "drag" /\ ~ allow_overlap) =>
         \A a \in Range(artists') : \A b \in Range(artists') :
            (a.aid = active_artist.aid /\ b.label # a.label) =>
               \A k \in 1 .. Len(b.xy) - 1 : ~ EdgesCross(a.xy, active_index, b.xy, k)]_vars

\* Drag session: open and close objects, press, drag and release control
\* points.
InitDrag == Init /\ orig_labels = TwoBlocks /\ ~ allow_overlap

\* pixels of both objects, control points of both chains and drag targets
DragPointer == { << 0, 0 >>, << 1, 1 >>, << 1, 2 >>, << 3, 0 >>, << 3, 1 >>, << 3, 3 >> }

NextDrag ==
    \/ \E pos \in DragPointer : OnClickLeft(pos)
    \/ \E pos \in DragPointer : OnClickRight(pos)
    \/ \E pos \in DragPointer : HandleMouseMovedActive(pos)
    \/ OnMouseButtonUp

SpecDrag == InitDrag /\ [][NextDrag]_vars

\* ---------------------------------------------------------------------------
\* The mode session: chains are opened, each mode is entered, its gesture is
\* begun (first split pick, a stroke, a rubber band) and Escape is pressed.
ModesPointer == { << 0, 0 >>, << 1, 1 >>, << 3, 3 >> }

InitModes == Init /\ orig_labels = TwoBlocks /\ ~ allow_overlap

NextModes ==
    \/ \E pos \in ModesPointer : OnClickRight(pos)
    \/ remove_artists
    \/ enter_split_mode
    \/ exit_split_mode
    \/ \E pos \in ModesPointer : on_split_first_click(pos)
    \/ enter_freehand_draw_mode
    \/ exit_freehand_draw_mode
    \/ \E pos \in ModesPointer : on_freehand_draw_click(pos)
    \/ \E pos \in ModesPointer : handle_mouse_moved_freehand_draw_mode(pos)
    \/ enter_delete_mode
    \/ exit_delete_mode
    \/ \E pos \in ModesPointer : on_delete_click(pos)
    \/ \E pos \in ModesPointer : on_mouse_moved_delete_mode(pos)

SpecModes == InitModes /\ [][NextModes]_vars

EscapeEvents == { "escape_normal", "escape_split", "escape_freehand", "escape_delete" }

\* C7: Escape works in every mode: in a split, freehand or delete mode it
\* discards that mode's temporary drawing (the split line, the stroke, the
\* rubber band and its selection markers) and returns to Normal mode; in
\* Normal mode it closes every open chain; in no mode does it change the
\* raster, the keep flags or the undo stack.
C7_EscapeCancels ==
    [][ev' \in EscapeEvents =>
          /\ mode' = NORMAL_MODE
          /\ labels' = labels
          /\ to_keep' = to_keep
          /\ undo_stack' = undo_stack
          /\ (mode = NORMAL_MODE) = (ev' = "escape_normal")
          /\ mode = NORMAL_MODE => artists' = << >>
          /\ mode # NORMAL_MODE => artists' = artists
          /\ mode = SPLIT_PICK_SECOND_MODE => split_artist' = FALSE
          /\ mode = SPLIT_PICK_FIRST_MODE => split_artist' = FALSE
          /\ mode = FREEHAND_DRAW_MODE => active_artist' = NoArtist
          /\ mode = DELETE_MODE =>
                /\ delete_mode_rect_artist' = FALSE
                /\ delete_mode_artist' = FALSE
                /\ delete_mode_start' = << >>]_vars

\* Escape has been pressed in the delete mode after a rubber band was dragged
\* over an open chain.
C7_EscapeAfterRubberBand ==
    /\ ev = "escape_delete"
    /\ delete_mode_filter # << >>
    /\ artists # << >>

\* ---------------------------------------------------------------------------
\* The drawing session: overlap disabled, objects are drawn freehand or
\* created with key N next to the two blocks, chains are closed, edits undone.
DrawPointer == { << 0, 0 >>, << 0, 3 >>, << 3, 0 >>, << 3, 3 >> }

InitDraw == Init /\ orig_labels = TwoBlocks /\ ~ allow_overlap

NextDraw ==
    \/ enter_freehand_draw_mode
    \/ exit_freehand_draw_mode
    \/ \E pos \in DrawPointer : on_freehand_draw_click(pos)
    \/ \E pos \in DrawPointer : handle_mouse_moved_freehand_draw_mode(pos)
    \/ \E pos \in DrawPointer : on_mouse_button_up_freehand_draw_mode(pos)
    \/ \E pos \in DrawPointer : new_object(pos)
    \/ \E pos \in DrawPointer : OnClickRight(pos)
    \/ Undo

SpecDraw == InitDraw /\ [][NextDraw]_vars

\* the identifiers that claim pixel p in some plane
Claimants(p) == { t[3] : t \in { u \in flatten(labels) : u[1] = p[1] /\ u[2] = p[2] } }

\* C8: with overlap disabled and an input in which no pixel carries two
\* identifiers, no pixel is ever claimed by two different identifiers.
C8_NoPixelWithTwoIds ==
    ~ allow_overlap => \A p \in Pixels : Cardinality(Claimants(p)) <= 1

\* ---------------------------------------------------------------------------
\* The split session: the ring's two chains (outside and hole) are opened and
\* split at pairs of their control points; splits are undone.
SplitPointer == { << 0, 0 >>, << 1, 1 >>, << 2, 2 >>, << 2, 3 >>, << 3, 2 >>, << 3, 3 >> }

InitSplit == Init /\ orig_labels = Ring /\ ~ allow_overlap

NextSplit ==
    \/ \E pos \in SplitPointer : OnClickRight(pos)
    \/ enter_split_mode
    \/ exit_split_mode
    \/ \E pos \in SplitPointer : on_split_first_click(pos)
    \/ \E pos \in SplitPointer : on_split_second_click(pos)
    \/ Undo

SpecSplit == InitSplit /\ [][NextSplit]_vars

\* C9: every chain of the live chain set is closed, its last point equal to
\* its first, whatever chain-editing operations have run.
C9_EveryChainClosed ==
    \A a \in Range(artists) : Len(a.xy) > 0 /\ Last(a.xy) = a.xy[1]

\* ---------------------------------------------------------------------------
\* The join session: three objects; chains are opened, a control point is
\* dragged, the objects with open chains are joined, a join is undone.
JoinPointer == { << 0, 0 >>, << 1, 1 >>, << 3, 0 >>, << 0, 3 >> }

InitJoin == Init /\ orig_labels = ThreeBlocks /\ ~ allow_overlap

NextJoin ==
    \/ \E pos \in JoinPointer : OnClickRight(pos)
    \/ \E pos \in JoinPointer : OnClickLeft(pos)
    \/ \E pos \in JoinPointer : HandleMouseMovedActive(pos)
    \/ OnMouseButtonUp
    \/ join_objects
    \/ Undo

SpecJoin == InitJoin /\ [][NextJoin]_vars

\* the pixels object l has once its open chains are committed: the even-odd
\* combination of its chains' polygons if one of them was edited, its raster
\* pixels otherwise
CommittedPixels(l) ==
    LET my == { a \in Range(artists) : a.label = l }
    IN  IF \E a \in my : a.edited
        THEN { p \in Pixels :
                 Cardinality({ a \in my : p \in polygon_lines_to_mask(a.xy) }) % 2 = 1 }
        ELSE ObjectPixels(labels, l)

\* C10: a join of the objects with open chains (two identifiers or more)
\* leaves one object under the lowest selected identifier, whose pixels are
\* the union of the selected objects' committed pixels; the other selected
\* identifiers are gone from the raster, every unselected object keeps its
\* pixels, and exactly one undo entry is pushed.
C10_JoinUnderLowestId ==
    [][ev' = "join" =>
          LET sel == Labels(artists)
              low == SetMin(sel)
          IN  /\ Cardinality(sel) >= 2
              /\ ObjectPixels(labels', low) = UNION { CommittedPixels(l) : l \in sel }
              /\ \A l \in sel \ { low } : ObjectPixels(labels', l) = {}
              /\ \A v \in (1 .. Len(to_keep) - 1) \ sel :
                     ObjectPixels(labels', v) = ObjectPixels(labels, v)
              /\ Len(undo_stack') = Len(undo_stack) + 1]_vars

\* Two of three objects have been joined, one of them after a drag changed
\* its chain, and the third object is still in the raster.
C10_JoinedTwoOfThree ==
    /\ ev = "join"
    /\ ObjectPixels(labels, 2) = {}
    /\ ObjectPixels(labels, 3) # {}
    /\ ObjectPixels(labels, 1) # ObjectPixels(orig_labels, 1) \cup ObjectPixels(orig_labels, 2)

\* ---------------------------------------------------------------------------
\* The hull session: three objects; chains are opened, a control point is
\* dragged, the convex hull of the objects with open chains is taken.
HullPointer == { << 1, 1 >>, << 0, 3 >> }

InitHull == Init /\ orig_labels = ThreeBlocks /\ ~ allow_overlap

NextHull ==
    \/ \E pos \in HullPointer : OnClickRight(pos)
    \/ \E pos \in HullPointer : OnClickLeft(pos)
    \/ \E pos \in HullPointer : HandleMouseMovedActive(pos)
    \/ convex_hull

SpecHull == InitHull /\ [][NextHull]_vars

\* C11: the convex hull command, for one selected object or more, commits
\* the open chains, leaves under the lowest selected identifier the convex
\* hull of the union of the selected objects' committed pixels, removes the
\* other selected identifiers from the raster, leaves open the chains of the
\* resulting object and no others, and pushes exactly one undo entry.
C11_HullUnderLowestId ==
    [][ev' = "hull" =>
          LET sel == Labels(artists)
              low == SetMin(sel)
          IN  /\ Cardinality(sel) >= 1
              /\ ObjectPixels(labels', low) =
                    convex_hull_image(UNION { CommittedPixels(l) : l \in sel })
              /\ \A l \in sel \ { low } : ObjectPixels(labels', l) = {}
              /\ Labels(artists') \subseteq { low }
              /\ { [xy |-> a.xy, outside |-> a.outside] : a \in Range(artists') } =
                    Range(make_control_points(labels', low))
              /\ \A a \in Range(artists') : ~ a.edited
              /\ Len(undo_stack') = Len(undo_stack) + 1]_vars

\* The hull of objects 1 and 3 has been taken: it fills the gap between them
\* and object 3 is gone from the raster.
C11_HullFilledGap ==
    /\ ev = "hull"
    /\ << 2, 2 >> \in ObjectPixels(labels, 1)
    /\ ObjectPixels(labels, 3) = {}

\* ---------------------------------------------------------------------------
\* Two indices of a closed chain of n distinct points that may not be split:
\* fewer than 2 positions apart, or the first and the last distinct point.
TooClose(i, j, n) ==
    \/ Abs(i - j) < 2
    \/ { i, j } = { 0, n - 1 }

\* the second split click that is being handled hit the chain of the first
\* pick and no other chain
SameContourPick ==
    /\ mode = SPLIT_PICK_SECOND_MODE
    /\ ev' \in { "pick_rejected", "split_outside", "split_hole", "split_bridge" }
    /\ \A h \in get_control_point(artists, event') : h[1] = split_pick_artist

\* C12: a second pick on the chain of the first pick is rejected, the
\* session unchanged and the mode still SplitPickSecond, exactly when the two
\* indices are fewer than 2 apart or are the first and last distinct points
\* of the chain; every other pair is split.
C12_SplitRejectedWhenTooClose ==
    [][SameContourPick =>
          LET a == ArtistOf(split_pick_artist)
              close == \E h \in get_control_point(artists, event') :
                          TooClose(h[2], split_pick_index, Len(a.xy) - 1)
          IN  /\ close <=> ev' = "pick_rejected"
              /\ close => /\ mode' = SPLIT_PICK_SECOND_MODE
                          /\ UNCHANGED << labels, to_keep, artists, undo_stack, split_artist,
                                          split_pick_artist, split_pick_index >>
              /\ ~ close => /\ ev' \in { "split_outside", "split_hole" }
                            /\ mode' = NORMAL_MODE
                            /\ artists' # artists]_vars

\* A second pick on the last distinct point of the chain whose first point
\* was picked first has been rejected.
C12_RejectedAcrossWrap ==
    /\ ev = "pick_rejected"
    /\ mode = SPLIT_PICK_SECOND_MODE
    /\ split_pick_index = 0
    /\ \E h \in get_control_point(artists, event) :
          h[1] = split_pick_artist /\ h[2] = Len(ArtistOf(h[1]).xy) - 2 /\ h[2] >= 3

\* ---------------------------------------------------------------------------
\* The point session: the ring's chains are opened, control points are
\* deleted (key D) and added (key A), edits are undone.
PointsPointer == { << 2, 2 >>, << 2, 3 >>, << 3, 3 >>, << 1, 2 >>, << 0, 2 >> }

InitPoints == Init /\ orig_labels = Ring /\ ~ allow_overlap

NextPoints ==
    \/ \E pos \in PointsPointer : OnClickRight(pos)
    \/ \E pos \in PointsPointer : delete_control_point(pos)
    \/ \E pos \in PointsPointer : add_control_point(pos)
    \/ Undo

SpecPoints == InitPoints /\ [][NextPoints]_vars

\* xy (closed) without its point at index (0-based), closed again
WithoutPoint(xy, index) ==
    LET open == [k \in 1 .. Len(xy) - 2 |-> IF k <= index THEN xy[k] ELSE xy[k + 1]]
    IN  Append(open, open[1])

\* C13: key D removes the control point under the pointer; if that would
\* leave the chain with fewer than 4 points counting the closing point, the
\* whole chain is deleted instead, so the chain that was hit is either gone or
\* still has 3 distinct points or more.
C13_DeleteKeepsThreePoints ==
    [][ev' \in { "delete_point", "delete_chain" } =>
          \E h \in get_control_point(artists, event') :
             LET a == ArtistOf(h[1])
                 after == { b \in Range(artists') : b.aid = a.aid }
             IN  IF Len(a.xy) - 1 < 4
                 THEN after = {}
                 ELSE /\ \A b \in after : b.xy = WithoutPoint(a.xy, h[2])
                      /\ after # {}]_vars

\* ---------------------------------------------------------------------------
\* The region session: both blocks' chains are opened, the delete mode is
\* entered, a rubber band is dragged and released.
RegionPointer == { << 0, 0 >>, << 2, 2 >>, << 3, 2 >>, << 3, 3 >> }

InitRegion == Init /\ orig_labels = TwoBlocks /\ ~ allow_overlap

NextRegion ==
    \/ \E pos \in RegionPointer : OnClickRight(pos)
    \/ enter_delete_mode
    \/ exit_delete_mode
    \/ \E pos \in RegionPointer : on_delete_click(pos)
    \/ \E pos \in RegionPointer : on_mouse_moved_delete_mode(pos)
    \/ on_mouse_button_up_delete_mode

SpecRegion == InitRegion /\ [][NextRegion]_vars

\* p lies strictly inside / outside the rectangle f = <<xmin, xmax, ymin, ymax>>
StrictlyInside(f, p) == f[1] < p[1] /\ p[1] < f[2] /\ f[3] < p[2] /\ p[2] < f[4]

OutsideRectangle(f, p) == p[1] < f[1] \/ p[1] > f[2] \/ p[2] < f[3] \/ p[2] > f[4]

\* the distinct points of a chain that the rectangle does not take
PointsLeft(f, a) == { p \in Range(a.xy) : ~ StrictlyInside(f, p) }

\* C14: on release in the delete mode with a dragged rectangle, every
\* control point strictly inside the rectangle is removed from its chain and
\* no point outside the rectangle is removed; a chain left with fewer than 3
\* points is deleted outright; an object whose last open chain is deleted
\* is removed from the raster, every other object keeps its pixels; the mode
\* is Normal again.
C14_RegionDelete ==
    [][(ev' = "rect_end" /\ delete_mode_filter # << >>) =>
          LET f == delete_mode_filter
              After(a) == { b \in Range(artists') : b.aid = a.aid }
              gone == { a \in Range(artists) : After(a) = {} }
              lost == { l \in Labels(artists) : \A a \in Range(artists) : a.label = l => a \in gone }
          IN  /\ mode' = NORMAL_MODE
              /\ \A a \in Range(artists) :
                    /\ \A b \in After(a) :
                          /\ \A p \in Range(a.xy) : StrictlyInside(f, p) => p \notin Range(b.xy)
                          /\ \A p \in Range(a.xy) : OutsideRectangle(f, p) => p \in Range(b.xy)
                    /\ Cardinality(PointsLeft(f, a)) < 3 /\ PointsLeft(f, a) # Range(a.xy)
                          => a \in gone
                    /\ PointsLeft(f, a) = Range(a.xy) => a \notin gone
              /\ { b.aid : b \in Range(artists') } \subseteq { a.aid : a \in Range(artists) }
              /\ \A l \in lost : ObjectPixels(labels', l) = {}
              /\ \A v \in (1 .. Len(to_keep) - 1) \ lost :
                    ObjectPixels(labels', v) = ObjectPixels(labels, v)]_vars

\* A rectangle has been released that took every point of object 1's chain
\* while object 2's chain stayed open: object 1 is gone from the raster.
C14_ChainAndObjectDeleted ==
    /\ ev = "rect_end"
    /\ delete_mode_filter # << >>
    /\ ObjectPixels(labels, 1) = {}
    /\ ObjectPixels(labels, 2) # {}
    /\ Labels(artists) = { 2 }

\* ---------------------------------------------------------------------------
\* The edges <<a, k>> (chain a, from point k to point k + 1) onto which the
\* gesture point pt projects within the edge, past neither endpoint.
EdgesUnder(pt) ==
    { e \in Range(artists) \X (1 .. MaxChainLen) :
        /\ e[2] < Len(e[1].xy)
        /\ e[1].xy[e[2]] # e[1].xy[e[2] + 1]
        /\ Dot(pt, e[1].xy[e[2]], e[1].xy[e[2] + 1]) > 0
        /\ Dot(pt, e[1].xy[e[2]], e[1].xy[e[2] + 1])
              < Dist2(e[1].xy[e[2]], e[1].xy[e[2] + 1]) }

\* the squared distance from pt to the line of edge e, as a fraction num/den
EdgeD2Num(pt, e) == Cross(e[1].xy[e[2]], e[1].xy[e[2] + 1], pt) *
                    Cross(e[1].xy[e[2]], e[1].xy[e[2] + 1], pt)

EdgeD2Den(e) == Dist2(e[1].xy[e[2]], e[1].xy[e[2] + 1])

\* edge e is within epsilon screen pixels of pt (coordinates in half pixels)
EdgeWithinEpsilon(pt, e) ==
    DisplayScale * DisplayScale * EdgeD2Num(pt, e) < 4 * epsilon * epsilon * EdgeD2Den(e)

\* a.xy with the point q put between its points k and k + 1
WithPoint(xy, k, q) ==
    [m \in 1 .. Len(xy) + 1 |-> IF m <= k THEN xy[m] ELSE IF m = k + 1 THEN q ELSE xy[m - 1]]

\* C15: key A inserts one point, the projection of the gesture point onto
\* the nearest of the edges it projects within, between that edge's two
\* endpoints, all other points and the closing point unchanged; it changes
\* neither the chains nor the undo stack if no edge is within tolerance of
\* the gesture point.
C15_AddProjectsOntoNearestEdge ==
    [][ev' \in { "add", "add_nothing" } =>
          LET pt == Centre(event')
              near == { e \in EdgesUnder(pt) : EdgeWithinEpsilon(pt, e) }
              nearest == { e \in EdgesUnder(pt) : \A g \in EdgesUnder(pt) :
                             EdgeD2Num(pt, e) * EdgeD2Den(g) <= EdgeD2Num(pt, g) * EdgeD2Den(e) }
          IN  IF near = {}
              THEN /\ ev' = "add_nothing"
                   /\ UNCHANGED << artists, undo_stack, labels >>
              ELSE /\ ev' = "add"
                   /\ Len(undo_stack') = Len(undo_stack) + 1
                   /\ \E e \in nearest :
                         /\ \A b \in Range(artists') :
                               IF b.aid = e[1].aid
                               THEN b.xy = WithPoint(e[1].xy, e[2],
                                              Projection(pt, e[1].xy[e[2]], e[1].xy[e[2] + 1]))
                               ELSE \E a \in Range(artists) : a.aid = b.aid /\ a.xy = b.xy
                         /\ Len(artists') = Len(artists)]_vars

\* ---------------------------------------------------------------------------
\* C16: in freehand mode a press starts an open chain of one point, a pointer
\* move appends one point to it, and a release closes the chain with its
\* first point, rasterizes it and registers the mask as a new object whose
\* identifier is len(to_keep), never seen in the raster before, kept; the
\* pixels of every existing object stay, the mode is normal again and one
\* undo entry is pushed.
C16_FreehandDrawAddsObject ==
    [][ /\ (ev' = "stroke_start" =>
                /\ Len(active_artist'.xy) = 1
                /\ UNCHANGED << labels, to_keep, undo_stack, mode >>)
        /\ (ev' = "stroke_move" =>
                /\ Len(active_artist'.xy) = Len(active_artist.xy) + 1
                /\ SubSeq(active_artist'.xy, 1, Len(active_artist.xy)) = active_artist.xy
                /\ UNCHANGED << labels, to_keep, undo_stack, mode >>)
        /\ (ev' = "stroke_end" =>
                LET N == Len(to_keep) - 1
                    closed == Append(Append(active_artist.xy, Centre(event')),
                                     active_artist.xy[1])
                IN  /\ ObjectPixels(labels, N + 1) = {}
                    /\ ObjectPixels(labels', N + 1) = polygon_lines_to_mask(closed)
                    /\ to_keep' = Append(to_keep, TRUE)
                    /\ \A v \in 1 .. N : ObjectPixels(labels', v) = ObjectPixels(labels, v)
                    /\ mode' = NORMAL_MODE
                    /\ active_artist' = NoArtist
                    /\ Len(undo_stack') = Len(undo_stack) + 1) ]_vars

\* a stroke of three corners was drawn over the two blocks and is object 3
C16_DrewThirdObject ==
    /\ ev = "stroke_end"
    /\ mode = NORMAL_MODE
    /\ Len(to_keep) = 4
    /\ to_keep[4]
    /\ ObjectPixels(labels, 3) # {}
    /\ ObjectPixels(labels, 1) # {}

\* ---------------------------------------------------------------------------
\* The identifier session: one block is opened and split across its outside
\* chain, objects are created with key N or drawn, chains are dropped with Escape,
\* control points deleted, objects joined and edits undone.
IdsPointer == { << 1, 1 >>, << 2, 2 >> }

InitIds == Init /\ orig_labels = OneBlock /\ ~ allow_overlap

NextIds ==
    \/ \E pos \in IdsPointer : OnClickRight(pos)
    \/ enter_split_mode
    \/ \E pos \in IdsPointer : on_split_first_click(pos)
    \/ \E pos \in IdsPointer : on_split_second_click(pos)
    \/ \E pos \in IdsPointer : new_object(pos)
    \/ enter_freehand_draw_mode
    \/ \E pos \in IdsPointer : on_freehand_draw_click(pos)
    \/ \E pos \in IdsPointer : on_mouse_button_up_freehand_draw_mode(pos)
    \/ \E pos \in IdsPointer : delete_control_point(pos)
    \/ join_objects
    \/ remove_artists
    \/ Undo

SpecIds == InitIds /\ [][NextIds]_vars

\* the identifiers that the planes lbls, the chains arts, the rows ijv and
\* the snapshots save and stack mention
IdsIn(lbls, arts, ijv, save, stack) ==
    { t[3] : t \in flatten(lbls) } \cup Labels(arts) \cup Labels(save)
        \cup { ijv[k][3] : k \in DOMAIN ijv }
        \cup UNION { { e.ijvx[k][3] : k \in DOMAIN e.ijvx } \cup Labels(e.save) :
                     e \in Range(stack) }

\* C17: identifiers are never reused.  With N = len(to_keep) - 1, every
\* identifier the session knows (raster, chains, undo snapshots) is at most
\* N, N never decreases, a step brings in no identifier above N + 1, and an
\* allocation (freehand draw, key N, outside split) introduces exactly N + 1
\* and advances N by one: whatever was joined, deleted, dropped or undone in
\* between, the identifier handed out is above every identifier ever seen.
C17_IdentifiersNeverReused ==
    [][ LET N == Len(to_keep) - 1
            before == IdsIn(labels, artists, last_ijv, last_artist_save, undo_stack)
            after == IdsIn(labels', artists', last_ijv', last_artist_save', undo_stack')
        IN  /\ before \subseteq 1 .. N
            /\ Len(to_keep') >= Len(to_keep)
            /\ after \subseteq 1 .. N + 1
            /\ (N + 1 \in after => Len(to_keep') = N + 2)
            /\ (ev' \in { "stroke_end", "new_object", "split_outside" } =>
                    /\ Len(to_keep') = N + 2
                    /\ to_keep'[N + 2]
                    /\ after \subseteq 1 .. N + 1) ]_vars

\* identifier 2 was allocated and has left the raster and the chains again
\* (undone or dropped); the next object created got identifier 3
C17_ThirdIdAfterSecondGone ==
    /\ ev = "new_object"
    /\ Len(to_keep) = 4
    /\ 3 \in Labels(artists)
    /\ 2 \notin Labels(artists)
    /\ ObjectPixels(labels, 2) = {}

\* ---------------------------------------------------------------------------
\* The reset session: the two blocks are opened, their control points deleted,
\* objects joined and created, flags flipped, edits undone, and the dialog is
\* reset at any point.
ResetPointer == { << 1, 1 >>, << 3, 1 >> }

InitReset == Init /\ orig_labels = TwoBlocks /\ ~ allow_overlap

NextReset ==
    \/ \E pos \in ResetPointer : OnClickRight(pos)
    \/ \E pos \in ResetPointer : delete_control_point(pos)
    \/ \E pos \in ResetPointer : new_object(pos)
    \/ join_objects
    \/ on_remove
    \/ on_toggle
    \/ Undo
    \/ on_reset

SpecReset == InitReset /\ [][NextReset]_vars

\* C18: no step changes the construction-time planes, and Reset, whatever
\* came before it, leaves the raster equal to them, one true keep flag for
\* each of their identifiers (and index 0), no chain and no undo entry.
C18_ResetRestoresConstruction ==
    [][ /\ orig_labels' = orig_labels
        /\ (ev' = "reset" =>
                /\ labels' = orig_labels
                /\ to_keep' = InitialKeep
                /\ artists' = << >>
                /\ undo_stack' = << >>) ]_vars

\* Reset came after a command that had cleared keep flags and after edits
C18_ResetAfterFlagsCleared ==
    /\ ev = "reset"
    /\ nkeep = 1
    /\ nsteps >= 4
    /\ labels = orig_labels
    /\ undo_stack = << >>

\* ---------------------------------------------------------------------------
\* The review session: the two blocks are opened and their control points
\* deleted, keep flags are set, cleared and negated by the three commands and
\* by clicks on single objects, and the dialog is finished with Done or its
\* close box is tried.
DonePointer == { << 1, 1 >>, << 3, 1 >> }

InitDone == Init /\ orig_labels = TwoBlocks /\ ~ allow_overlap

NextDone ==
    \/ \E pos \in DonePointer : OnClickRight(pos)
    \/ \E pos \in DonePointer : OnClickLeft(pos)
    \/ \E pos \in DonePointer : delete_control_point(pos)
    \/ on_keep
    \/ on_remove
    \/ on_toggle
    \/ on_resume
    \/ on_close

SpecDone == InitDone /\ [][NextDone]_vars

\* C19: Keep, Remove and Toggle leave the flag at index 0, the number of
\* flags, the raster, the chains and the undo stack as they are, and set the
\* flag of every identifier 1..N to true, to false, or to its negation; a
\* second Toggle directly after a first gives back the flags the first one
\* started from (all true when these are the session's first two flag commands).
C19_KeepRemoveToggle ==
    [][ (ev' \in { "keep", "remove", "toggle" } =>
            /\ DOMAIN to_keep' = DOMAIN to_keep
            /\ to_keep'[1] = to_keep[1]
            /\ \A k \in 2 .. Len(to_keep) :
                  to_keep'[k] = CASE ev' = "keep" -> TRUE
                                  [] ev' = "remove" -> FALSE
                                  [] ev' = "toggle" -> ~ to_keep[k]
            /\ UNCHANGED << labels, artists, undo_stack >>
            /\ (ev = "toggle" /\ ev' = "toggle" /\ nkeep' = 2 =>
                    \A k \in DOMAIN to_keep : to_keep'[k])) ]_vars

\* Toggle was applied twice in a row and every flag is true again
C19_ToggledTwice ==
    /\ ev = "toggle"
    /\ nkeep = 2
    /\ \A k \in DOMAIN to_keep : to_keep[k]
    /\ artists # << >>

\* C20: Done closes every object that has open chains, committing the edited
\* ones, and then clears every identifier whose keep flag is false: no chain
\* is left, an identifier whose flag is true has exactly its committed
\* pixels, and an identifier whose flag is false has none.
C20_DoneKeepsFlaggedObjects ==
    [][ (ev' = "done" =>
            /\ artists' = << >>
            /\ \A v \in 1 .. Len(to_keep) - 1 :
                  ObjectPixels(labels', v) =
                      IF to_keep[v + 1] THEN CommittedPixels(v) ELSE {}
            /\ { t[3] : t \in flatten(labels') } \subseteq
                  { v \in 1 .. Len(to_keep) - 1 : to_keep[v + 1] }) ]_vars

\* Done committed an edit of object 1 and cleared object 2, whose flag was
\* false
C20_DoneCommittedAndCleared ==
    /\ ev = "done"
    /\ to_keep[2] /\ ~ to_keep[3]
    /\ ObjectPixels(labels, 1) # {}
    /\ ObjectPixels(labels, 1) # ObjectPixels(orig_labels, 1)
    /\ ObjectPixels(labels, 2) = {}
    /\ artists = << >>

\* ---------------------------------------------------------------------------
\* The session of invalid edits: the two blocks are opened, a control point
\* of the first is picked up and dragged, control points are deleted and
\* added, objects joined and hulled and chains split, with the
\* pointer on control points of both blocks, on background pixels and off
\* the raster.
OffRaster == << 0, -1 >>

InvalidOpen == { << 1, 1 >>, << 3, 1 >> }

InvalidPress == { << 1, 2 >>, OffRaster }

InvalidDrag == { << 3, 1 >> }

InvalidAdd == { << 0, 3 >> }

InvalidDelete == { << 1, 1 >>, << 0, 3 >> }

InvalidPointer == { << 1, 1 >>, << 3, 1 >>, << 0, 3 >> }

InitInvalid == Init /\ orig_labels = TwoBlocks /\ ~ allow_overlap

NextInvalid ==
    \/ \E pos \in InvalidPress : OnClickLeft(pos)
    \/ \E pos \in InvalidOpen : OnClickRight(pos)
    \/ \E pos \in InvalidDrag : HandleMouseMovedActive(pos)
    \/ \E pos \in InvalidDelete : delete_control_point(pos)
    \/ \E pos \in InvalidAdd : add_control_point(pos)
    \/ join_objects
    \/ convex_hull
    \/ enter_split_mode
    \/ \E pos \in InvalidPointer : on_split_first_click(pos)
    \/ \E pos \in InvalidPointer : on_split_second_click(pos)

SpecInvalid == InitInvalid /\ [][NextInvalid]_vars

\* nothing is under the pointer at pos: no object pixel (a background pixel
\* or a pixel off the raster), no control point within epsilon, no chain
\* around it
NothingUnder(pos) ==
    /\ \A t \in flatten(labels) : << t[1], t[2] >> # pos
    /\ get_control_point(artists, pos) = {}
    /\ \A a \in Range(artists) : ~ contains_point(a.xy, pos)

\* the second pick at pos is on a chain of another object than the first
\* pick's, or on another chain of the first pick's polarity
WrongSecondPick(pos) ==
    /\ mode = SPLIT_PICK_SECOND_MODE
    /\ split_pick_artist \in { a.aid : a \in Range(artists) }
    /\ get_control_point(artists, pos) # {}
    /\ \A h \in get_control_point(artists, pos) :
          LET pick == ArtistOf(h[1])
              first == ArtistOf(split_pick_artist)
          IN  /\ pick.aid # first.aid
              /\ (pick.label # first.label \/ pick.outside = first.outside)

\* the step from mode m is one of the edits that are invalid where they are
\* made
InvalidEdit ==
    \/ ev' = "drag_rejected"
    \/ /\ ev' \in { "pick_nothing", "pick_rejected", "pick_error", "split_outside",
                    "split_hole", "split_bridge" }
       /\ WrongSecondPick(event')
    \/ /\ ev' \in { "press", "click_keep", "click_nothing", "open", "close" }
       /\ NothingUnder(event')
    \/ /\ ev' \in { "delete_nothing", "delete_point", "delete_chain" }
       /\ get_control_point(artists, event') = {}
    \/ /\ ev' \in { "join", "join_nothing" }
       /\ Cardinality(Labels(artists)) < 2
    \/ /\ ev' \in { "hull", "hull_nothing", "add", "add_nothing" }
       /\ artists = << >>

\* C21: an edit that is invalid in the current state (a rejected drag, a
\* second split pick on another object or on another chain of the same
\* polarity, a click on a background pixel or a pixel off the raster, a
\* delete with no control point within epsilon, a join of fewer than two
\* open objects, a hull or an added control point with no open chain)
\* leaves the raster, the chains, the keep flags, the undo stack and the
\* mode as they are and raises no error.
C21_InvalidEditIsNoOp ==
    [][ InvalidEdit => /\ UNCHANGED << labels, artists, to_keep, undo_stack, mode >>
                       /\ raised' = "" ]_vars

\* ---------------------------------------------------------------------------
\* The session on an empty raster: one plane without any label; objects are
\* drawn freehand or created with key N, opened, closed and undone.
InitEmpty == Init /\ orig_labels = Empty /\ ~ allow_overlap

SpecEmpty == InitEmpty /\ [][NextDraw]_vars

\* C22: construction fails when no plane contains a label (and when the
\* planes differ in dimensions), so that no session exists on such an input:
\* in every state of a session some construction-time plane has a label,
\* or the construction error is raised and there is no keep flag.
C22_ConstructionRejectsEmptyInput ==
    (\A k \in DOMAIN orig_labels : orig_labels[k] = {}) =>
        (raised = "EmptyInput" /\ to_keep = << >>)

OpenPlanes == { Block3, Wide, Full, Diamond, Scattered, Flag, Ring, Filled, TwoBlocks }

OpenPointer == { << 0, 0 >>, << 0, 1 >>, << 1, 1 >>, << 2, 2 >>, << 3, 1 >>, << 3, 3 >> }

InitOpen == Init /\ orig_labels \in OpenPlanes /\ ~ allow_overlap

NextOpen ==
    \/ \E pos \in OpenPointer : OnClickRight(pos)
    \/ remove_artists

SpecOpen == InitOpen /\ [][NextOpen]_vars

\* The step opens an object of the untouched raster while no chain is open.
Opens == labels = orig_labels /\ artists = << >> /\ ev' = "open"

\* The distinct control points of a chain.
ControlPoints(a) == Range(a.xy)

\* C24 as stated: opening the 3 x 3 block at rows 1-3, columns 1-3 of an
\* otherwise empty plane yields exactly one outside chain with exactly 4
\* control points and no hole chain.
C24_BlockOpensWithFourPoints ==
    [][(Opens /\ orig_labels = Block3) =>
          /\ Len(artists') = 1
          /\ artists'[1].outside
          /\ Cardinality(ControlPoints(artists'[1])) = 4]_vars

\* C24 (amended): opening the 3 x 3 block at rows 1-3, columns 1-3 of an
\* otherwise empty plane yields exactly one outside chain and no hole chain;
\* its closed chain of 9 points is not simplified, so it has exactly 8 control
\* points, the centres of the 8 border pixels of the block (the 4 corners and
\* the 4 edge midpoints), in the coordinates of the padded mask.
C24_BlockOpensWithEightPoints ==
    [][(Opens /\ orig_labels = Block3) =>
          /\ Len(artists') = 1
          /\ artists'[1].outside
          /\ artists'[1].label = 1
          /\ Len(artists'[1].xy) = 9
          /\ ControlPoints(artists'[1]) =
                { << 2 * (p[2] + 1), 2 * (p[1] + 1) >> :
                    p \in ((1 .. 3) \X (1 .. 3)) \ { << 2, 2 >> } }]_vars

\* The 3 x 3 block has been opened: one chain of 9 points is on display.
C24_BlockOpened ==
    /\ orig_labels = Block3
    /\ ev = "open"
    /\ Len(artists) = 1
    /\ Len(artists[1].xy) = 9


\* The chains a step has added to the display, in the order of their creation.
Opened == SubSeq(artists', Len(artists) + 1, Len(artists'))

\* The components outlined by a step that opens the object under the pointer.
OpenedSubObjects == sub_objects(labels, LabelAt(labels, event'))

\* C25: a closed raw chain of at most 10 points (the closing point counted, as
\* the code counts it) is not simplified: the chain on display is the raw
\* chain, every point in order; a raw chain of more than 10 points is the one
\* that goes through the loop, and what is displayed is its accepted points.
C25_ShortChainsKeptWhole ==
    [][ev' = "open" =>
          \A subs \in { OpenedSubObjects } : \A new \in { Opened } :
             /\ Len(new) = Len(subs)
             /\ \A k \in DOMAIN subs :
                   \A raw \in { RawChain(subs[k].comp, subs[k].outside) } :
                      IF Len(raw) <= 10
                      THEN new[k].xy = raw
                      ELSE \A acc \in { AcceptLoop(raw, { 0, Len(raw) - 1, Len(raw) \div 2 }) } :
                              /\ Range(new[k].xy) = { raw[a + 1] : a \in acc }
                              /\ Len(new[k].xy) = Cardinality(acc)]_vars

\* A chain of exactly 10 points is on display next to none that was
\* simplified: the object of the plane Flag has been opened.
C25_TenPointChainOpened ==
    /\ ev = "open"
    /\ orig_labels = Flag
    /\ \E k \in DOMAIN artists : Len(artists[k].xy) = 10


\* The connected components of a set of raster pixels, as a set of sets.
Components(S, eight) == { Flood({ p }, { p }, S, eight) : p \in S }

OnRasterEdge(p) == p[1] \in { 0, Rows - 1 } \/ p[2] \in { 0, Cols - 1 }

\* The control points of a chain as raster pixels (the chain is in half-pixel
\* <<x, y>> of the padded mask).
ChainPixels(a) == { << (q[2] \div 2) - 1, (q[1] \div 2) - 1 >> : q \in Range(a.xy) }

\* C26: opening an object puts on display exactly one outside chain for every
\* 8-connected component of its pixels and exactly one hole chain for every
\* 4-connected component of the rest of the raster that has no pixel on the
\* raster's edge; the chain of a component runs over pixels of that component,
\* and no chain runs over a component that reaches the edge.
C26_OneChainPerComponent ==
    [][ev' = "open" =>
          \A new \in { Opened } :
          \A foot \in { ObjectPixels(labels, LabelAt(labels, event')) } :
             LET parts == Components(foot, TRUE)
                 rest == Components(Pixels \ foot, FALSE)
                 holes == { c \in rest : \A p \in c : ~ OnRasterEdge(p) }
                 on(c, outside) ==
                     { k \in DOMAIN new : new[k].outside = outside /\ ChainPixels(new[k]) \subseteq c }
             IN  /\ \A c \in parts : Cardinality(on(c, TRUE)) = 1
                 /\ \A c \in holes : Cardinality(on(c, FALSE)) = 1
                 /\ Len(new) = Cardinality(parts) + Cardinality(holes)
                 /\ \A k \in DOMAIN new : new[k].label = LabelAt(labels, event')]_vars

\* The four diagonal pixels are open as one outside chain and the pixel they
\* enclose as one hole chain; the corner pixels they cut off have none.
C26_DiamondOpened ==
    /\ ev = "open"
    /\ orig_labels = Diamond
    /\ Len(artists) = 2
    /\ artists[1].outside
    /\ ~ artists[2].outside


RECURSIVE LoopTrace(_, _, _)
\* The accepted sets at the head of each pass of the loop over chain, the
\* last one being the set at the break, for at most fuel passes.
LoopTrace(chain, accepted, fuel) ==
    LET pass == loop_pass(chain, accepted)
    IN  IF pass.amax < 8 * 4 \/ fuel = 0 THEN << accepted >>
        ELSE << accepted >> \o LoopTrace(chain, accepted \cup { pass.idx }, fuel - 1)

\* 8 times the area of the triangle of point k of chain with its nearest
\* accepted neighbours on either side.
SpanArea(chain, accepted, k) ==
    LET lo == SetMax({ a \in accepted : a < k })
        hi == SetMin({ a \in accepted : a > k })
    IN  triangle_areas8(chain[lo + 1], chain[hi + 1], chain[k + 1])

\* C30: for every closed raw chain of more than 10 points the loop ends
\* within as many passes as the chain has points; every pass but the last
\* accepts one index that was excluded, the index midpoint of the span of
\* accepted neighbours of an excluded point of largest area; the chain on
\* display is the raw chain at the accepted indices in order, which include
\* the first, the middle and the closing index; and at the end every excluded
\* point makes a triangle of area below 4 with its nearest accepted neighbours.
C30_SimplificationTerminates ==
    [][ev' = "open" =>
          \A subs \in { OpenedSubObjects } : \A new \in { Opened } :
          \A k \in DOMAIN subs :
             \A raw \in { RawChain(subs[k].comp, subs[k].outside) } :
                Len(raw) > 10 =>
                   \A n \in { Len(raw) } :
                   \A t \in { LoopTrace(raw, { 0, n - 1, n \div 2 }, n) } :
                   \A acc \in { Last(t) } :
                   \A aidx \in { SeqOfSet({ << a >> : a \in acc }) } :
                      /\ Len(t) <= n
                      /\ \A i \in 1 .. Len(t) - 1 :
                            /\ t[i] \subseteq t[i + 1]
                            /\ Cardinality(t[i + 1] \ t[i]) = 1
                            /\ \E e \in (0 .. n - 2) \ t[i] :
                                  /\ \A o \in (0 .. n - 2) \ t[i] :
                                        SpanArea(raw, t[i], o) <= SpanArea(raw, t[i], e)
                                  /\ SpanArea(raw, t[i], e) >= 8 * 4
                                  /\ t[i + 1] \ t[i] =
                                        { (SetMax({ a \in t[i] : a < e }) +
                                           SetMin({ a \in t[i] : a > e })) \div 2 }
                      /\ { 0, n \div 2, n - 1 } \subseteq acc
                      /\ new[k].xy = [j \in DOMAIN aidx |-> raw[aidx[j][1] + 1]]
                      /\ \A e \in (0 .. n - 1) \ acc : SpanArea(raw, acc, e) < 8 * 4]_vars

\* The outline of the whole raster is open: 13 raw points, of which the loop
\* has added corners to the three it starts from and has left others out.
C30_LongChainSimplified ==
    /\ ev = "open"
    /\ orig_labels = Full
    /\ Len(artists) = 1
    /\ Len(artists[1].xy) > 3
    /\ Len(artists[1].xy) < 13


\* -------------------------------------------- session: landing on an edge
\* Two blocks, both opened; a control point of the lower chain is deleted,
\* which leaves a horizontal edge two pixels long, and a control point of the
\* upper chain is dragged onto that edge, onto a vertex and into free space.
EdgeOpen == { << 1, 1 >>, << 3, 1 >> }
EdgePress == { << 2, 2 >> }
EdgeDelete == { << 3, 2 >> }
EdgeDrag == { << 3, 2 >>, << 3, 1 >>, << 2, 3 >> }

InitEdge == Init /\ orig_labels = TwoBlocks /\ ~ allow_overlap

NextEdge ==
    \/ \E pos \in EdgeOpen : OnClickRight(pos)
    \/ \E pos \in EdgePress : OnClickLeft(pos)
    \/ \E pos \in EdgeDelete : delete_control_point(pos)
    \/ \E pos \in EdgeDrag : HandleMouseMovedActive(pos)
    \/ OnMouseButtonUp

SpecEdge == InitEdge /\ [][NextEdge]_vars

\* p lies on the edge from l0 to l1, strictly between its endpoints.
StrictlyOn(p, l0, l1) ==
    /\ Cross(l0, l1, p) = 0
    /\ p # l0 /\ p # l1
    /\ Min2(l0[1], l1[1]) <= p[1] /\ p[1] <= Max2(l0[1], l1[1])
    /\ Min2(l0[2], l1[2]) <= p[2] /\ p[2] <= Max2(l0[2], l1[2])

\* The lines of chain b that a move of point index of chain act is tested
\* against.
TestedLines(b, act, index) ==
    IF b.aid # act.aid THEN b.xy
    ELSE IF Len(act.xy) - 1 <= 4 THEN << >>
    ELSE OwnLines(act.xy, index)

\* The candidate point of a drag to pos lands on an edge of another chain.
LandsOnEdge(pos) ==
    /\ active_artist.aid \in { a.aid : a \in Range(artists) }
    /\ active_index < Len(ArtistOf(active_artist.aid).xy) - 1
    /\ \E b \in Range(artists) :
          /\ b.aid # active_artist.aid
          /\ \E k \in 1 .. Len(b.xy) - 1 : StrictlyOn(Centre(pos), b.xy[k], b.xy[k + 1])

\* The two lines of the moved point meet a tested edge other than one the
\* candidate point lands on.
CrossesOtherEdge(pos) ==
    LET act == ArtistOf(active_artist.aid)
        data == Front(act.xy)
        n_points == Len(data)
        before_pt == data[((n_points - 1 + active_index) % n_points) + 1]
        after_pt == data[((active_index + 1) % n_points) + 1]
        path == << before_pt, Centre(pos), after_pt >>
    IN  \E b \in Range(artists) :
           \E lines \in { TestedLines(b, act, active_index) } :
              \E k \in 1 .. Len(lines) - 1 :
                 /\ ~ StrictlyOn(Centre(pos), lines[k], lines[k + 1])
                 /\ intersects_path(path, << lines[k], lines[k + 1] >>)

\* C27: a drag whose candidate point lands on an edge of another chain,
\* strictly between the edge's endpoints, is not rejected for that edge,
\* whatever the edge's orientation: the move is rejected exactly if the lines
\* of the moved point meet some other tested edge.
C27_LandingOnEdgeTolerated ==
    [][\A pos \in EdgeDrag :
          (LandsOnEdge(pos) /\ HandleMouseMovedActive(pos)) =>
             (ev' = "drag_rejected" <=> CrossesOtherEdge(pos))]_vars


\* ----------------------------------------------------- session: splitting
\* The ring, a 3 x 3 block and an object of two parts, one of them around a
\* hole: the object is opened and its chains are split at pairs of control
\* points, on one chain (outside or hole) and across an outside and a hole
\* chain.  The picks are the pixels under the control
\* points of the block's chain and of the ring's hole chain.
CutPlanes == { Ring, Square, Kite }
CutOpen == { << 0, 0 >> }
CutPick == (1 .. 3) \X (1 .. 3)

InitCut == Init /\ orig_labels \in CutPlanes /\ ~ allow_overlap

NextCut ==
    \/ \E pos \in CutOpen : OnClickRight(pos)
    \/ enter_split_mode
    \/ \E pos \in CutPick : on_split_first_click(pos)
    \/ \E pos \in CutPick : on_split_second_click(pos)

SpecCut == InitCut /\ [][NextCut]_vars

\* The second pick of a split step: the chain and the index under the pointer.
SecondPicks == get_control_point(artists, event')

\* The points of chain xy at the 0-based indices of the sequence idx.
PointsAt(xy, idx) == [k \in DOMAIN idx |-> xy[idx[k] + 1]]

\* The integers from a to b in order, none if b < a.
Upto(a, b) == [k \in 1 .. (b - a + 1) |-> a + k - 1]

\* The two polygons of a split of the closed chain xy = p0 .. p(n-1), p0 at
\* i < j: p0 .. pi, pj .. p(n-1), p0 and pi .. pj, pi.
FirstPolygon(xy, i, j) == PointsAt(xy, Upto(0, i) \o Upto(j, Len(xy) - 2) \o << 0 >>)

SecondPolygon(xy, i, j) == PointsAt(xy, Upto(i, j) \o << i >>)

\* The pixels of the holes of object v that are open as chains.
OpenHolePixels(v) ==
    UNION { polygon_lines_to_mask(a.xy) :
              a \in { b \in Range(artists) : ~ b.outside /\ b.label = v } }

RoundFrom(xy, o) ==
    LET n == Len(xy) - 1
    IN  [k \in 1 .. n - 1 |-> xy[((o + k) % n) + 1]]

\* The midpoints of the point at index o of the closed chain xy with the
\* point before it and with the point after it.
MidBefore(xy, o) ==
    LET n == Len(xy) - 1 IN Mid(xy[((o + n - 1) % n) + 1], xy[o + 1])

MidAfter(xy, o) ==
    LET n == Len(xy) - 1 IN Mid(xy[((o + 1) % n) + 1], xy[o + 1])

\* The merged polygon of a bridge between point o of the outside chain P and
\* point i of the hole chain Q: neither picked point, their four midpoints,
\* and every other point of both chains in the order of its chain.
Merged(P, o, Q, i) ==
    LET body == << MidBefore(P, o), MidAfter(Q, i) >> \o RoundFrom(Q, i)
                   \o << MidBefore(Q, i), MidAfter(P, o) >> \o RoundFrom(P, o)
    IN  Append(body, body[1])

\* C29: an accepted split with one pick on an outside chain and one on a hole
\* chain of the same object takes both chains off the display and commits the
\* one polygon merged from them (neither picked point, the four midpoints,
\* every other point of both chains in chain order) under the object's
\* identifier, rasterized with the object's other open chains; the chains of
\* the object then on display are the outlines of that raster; no identifier
\* is allocated, the mode is Normal and one undo entry has been pushed.
C29_BridgeSplit ==
    [][ev' = "split_bridge" =>
          \E h \in SecondPicks :
             LET pick == ArtistOf(h[1])
                 first == ArtistOf(split_pick_artist)
                 out == IF pick.outside THEN pick ELSE first
                 hole == IF pick.outside THEN first ELSE pick
                 o == IF pick.outside THEN h[2] ELSE split_pick_index
                 i == IF pick.outside THEN split_pick_index ELSE h[2]
                 v == out.label
                 others == { k \in DOMAIN artists :
                               artists[k].label = v /\ artists[k].aid \notin { out.aid, hole.aid } }
             IN  /\ pick.aid # first.aid /\ out.outside /\ ~ hole.outside /\ hole.label = v
                 /\ \A merged \in { Merged(out.xy, o, hole.xy, i) } :
                       /\ Last(merged) = merged[1]
                       /\ Len(merged) = Len(out.xy) + Len(hole.xy) + 1
                       /\ ObjectPixels(labels', v) =
                             { p \in Pixels :
                                 (Cardinality({ k \in others :
                                     p \in polygon_lines_to_mask(artists[k].xy) })
                                  + (IF p \in polygon_lines_to_mask(merged) THEN 1 ELSE 0)) % 2 = 1 }
                 /\ \A w \in 1 .. Len(to_keep) - 1 :
                       w # v => ObjectPixels(labels', w) = ObjectPixels(labels, w)
                 /\ \A cs \in { make_control_points(labels', v) } :
                       LET mine == SelectSeq(artists', LAMBDA a : a.label = v)
                       IN  /\ Len(mine) = Len(cs)
                           /\ \A k \in DOMAIN cs :
                                 mine[k].xy = cs[k].xy /\ mine[k].outside = cs[k].outside
                 /\ to_keep' = to_keep
                 /\ mode' = NORMAL_MODE
                 /\ Len(undo_stack') = Len(undo_stack) + 1]_vars

\* The ring's outside chain and its hole chain have been bridged: the raster
\* has changed, the object has no hole chain left and no identifier is new.
C29_RingBridged ==
    /\ ev = "split_bridge"
    /\ orig_labels = Ring
    /\ labels # orig_labels
    /\ \A a \in Range(artists) : a.outside
    /\ Len(to_keep) = 2
    /\ Len(undo_stack) = 1
    /\ mode = NORMAL_MODE

\* ------------------------------------------------------------------ C31
\* Stage session: the gestures that work on the chains of the ring, with the
\* right click that commits them.
StageOpen == { << 0, 0 >> }
StagePress == { << 1, 1 >>, << 2, 2 >> }
StageDrag == { << 0, 0 >>, << 1, 2 >> }
StageAdd == { << 0, 2 >> }
StagePick == { << 2, 2 >>, << 3, 3 >> }

InitStage == Init /\ orig_labels = Ring /\ ~ allow_overlap

NextStage ==
    \/ \E pos \in StageOpen : OnClickRight(pos)
    \/ \E pos \in StagePress : OnClickLeft(pos)
    \/ \E pos \in StageDrag : HandleMouseMovedActive(pos)
    \/ OnMouseButtonUp
    \/ \E pos \in StageAdd : add_control_point(pos)
    \/ \E pos \in StageOpen : new_object(pos)
    \/ enter_split_mode
    \/ \E pos \in StagePick : on_split_first_click(pos)
    \/ \E pos \in StagePick : on_split_second_click(pos)

SpecStage == InitStage /\ [][NextStage]_vars

\* The gestures that only stage geometry in the chains.
Staging == { "open", "drag", "add", "new_object", "split_hole" }

Around(pos) == { a.label : a \in { b \in Range(artists) : contains_point(b.xy, pos) } }

\* The right click closed object k: its chains are gone and the others are
\* as they were, one undo entry was pushed, and the raster was rewritten at
\* most for k, and only if a chain of k was marked edited.
ClosedAs(k) ==
    /\ artists' = SelectSeq(artists, LAMBDA a : a.label # k)
    /\ Len(undo_stack') = Len(undo_stack) + 1
    /\ \A v \in 1 .. MaxObjects :
          v # k => ObjectPixels(labels', v) = ObjectPixels(labels, v)
    /\ (\A a \in Range(artists) : a.label = k => ~ a.edited) => labels' = labels

\* C32: a right click inside an open chain of object k in Normal mode closes
\* every chain of k and pushes exactly one undo entry, rewriting the raster
\* for k only if one of k's chains is marked edited and leaving it unchanged
\* otherwise; a right click on a labelled pixel of an object that has open
\* chains never opens a second set of chains for it.
C32_RightClickClosesOrOpensOnce ==
    [][/\ ev' = "close" => \E k \in Around(event') : ClosedAs(k)
       /\ ev' = "open" => LabelAt(labels, event') \notin Labels(artists)]_vars

\* What the closing right click does, without the clause on opening.
RightClickCloses ==
    [][ev' = "close" => \E k \in Around(event') : ClosedAs(k)]_vars

\* ------------------------------------------------------------------ C33
\* C33: between gestures the snapshot last_ijv holds exactly the (row, col,
\* id) triples of flatten() of the current planes, whatever handlers have run,
\* undo and reset among them.
C33_SnapshotIsRaster == Range(last_ijv) = flatten(labels)

\* C33 witness: an undo has taken back the later of two edits of the raster,
\* and the snapshot is the raster that the first edit left.
C33_UndoneToEditedRaster ==
    /\ ev = "undo"
    /\ flatten(labels) # flatten(orig_labels)
    /\ flatten(labels) # {}
    /\ Range(last_ijv) = flatten(labels)

\* ------------------------------------------------------------------ C34
\* C34: every identifier in a plane, on a live chain, in the snapshot or in an
\* undo entry (its rows and its saved chains) indexes the keep flags, that is
\* 1 <= id < len(to_keep); entry 0 of the flags is always true; and the array
\* gets shorter in no step but a reset.
C34_IdentifiersIndexKeepFlags ==
    /\ [](/\ IdsIn(labels, artists, last_ijv, last_artist_save, undo_stack)
                \subseteq 1 .. Len(to_keep) - 1
          /\ to_keep[1])
    /\ [][ev' # "reset" => Len(to_keep') >= Len(to_keep)]_vars

\* C34 witness: identifier 3, allocated by key N, is in a plane and on a
\* chain saved in an undo entry, with flags for 0 .. 3.
C34_AllocatedIdEverywhere ==
    /\ 3 \in { t[3] : t \in flatten(labels) }
    /\ \E e \in Range(undo_stack) : 3 \in Labels(e.save)
    /\ Len(to_keep) = 4

\* ------------------------------------------------------------------ C35
\* The Line2D objects in self.artists
LiveChains == { a.aid : a \in Range(artists) }

\* C35: no gesture in progress holds a chain that has left the chain set: a
\* drag target held in Normal mode and the first split pick held in
\* SplitPickSecond mode are chains of self.artists, whatever command (Escape,
\* undo, reset, join, convex hull, delete control point) ran since the press
\* or the pick.
C35_NoDanglingChain ==
    /\ (mode = NORMAL_MODE /\ active_artist.aid # 0) => active_artist.aid \in LiveChains
    /\ mode = SPLIT_PICK_SECOND_MODE => split_pick_artist \in LiveChains

\* ------------------------------------------------------------------ C36
\* Hold session: a control point of the upper block is pressed, and a mode
\* key (S, X, F) is struck before the button is released.
HoldOpen == { << 0, 0 >> }
HoldPress == { << 1, 1 >>, << 0, 0 >> }
HoldMove == { << 0, 0 >>, << 1, 1 >> }

InitHold == Init /\ orig_labels = TwoBlocks /\ ~ allow_overlap

NextHold ==
    \/ \E pos \in HoldOpen : OnClickRight(pos)
    \/ \E pos \in HoldPress : OnClickLeft(pos)
    \/ \E pos \in HoldMove : HandleMouseMovedActive(pos)
    \/ OnMouseButtonUp
    \/ enter_split_mode
    \/ exit_split_mode
    \/ enter_delete_mode
    \/ on_mouse_button_up_delete_mode
    \/ enter_freehand_draw_mode
    \/ \E pos \in HoldMove : on_mouse_button_up_freehand_draw_mode(pos)

SpecHold == InitHold /\ [][NextHold]_vars

\* The handlers of a button release
Releases == { "release", "rect_end", "stroke_end", "stroke_error" }

\* C36: a drag target (a chain held in active_artist) is set only by a left
\* press on a control point in Normal mode, and the next button release
\* clears it whatever the mode is by then; so a pointer motion after the
\* release moves no control point, also when S, X or F was struck while the
\* button was down.
C36_ReleaseClearsDragTarget ==
    [][/\ (active_artist'.aid > 0 /\ active_artist' # active_artist) =>
              (ev' = "press" /\ mode = NORMAL_MODE)
       /\ ev' \in Releases => active_artist'.aid <= 0
       /\ ~ (ev \in Releases /\ ev' = "drag")]_vars


\* ------------------------------------------- release without a stroke
\* the button releases that on_mouse_button_up hands to the freehand handler
StrokeReleases == { "stroke_end", "stroke_error" }

\* C37: in the freehand mode a button release with no stroke started (the
\* press fell outside the axes, or there was none) is a no-op: no object is
\* created, the raster, the keep flags and the undo stack are unchanged,
\* and no error is raised
C37_ReleaseWithoutStrokeIsNoOp ==
    [][(mode = FREEHAND_DRAW_MODE /\ active_artist.aid = 0 /\ ev' \in StrokeReleases) =>
          /\ labels' = labels
          /\ artists' = artists
          /\ to_keep' = to_keep
          /\ undo_stack' = undo_stack
          /\ raised' = ""]_vars


\* ---------------------------------------------- gestures without effect
\* C38: a gesture that changes neither the raster nor any chain pushes no
\* undo entry; in particular a button release in the delete mode with no
\* rectangle dragged, or with a rectangle holding no control point, leaves
\* the length of the undo stack as it was
C38_NoChangePushesNoUndo ==
    [][(labels' = labels /\ artists' = artists) =>
          Len(undo_stack') <= Len(undo_stack)]_vars


\* ---------------------------------------------------------- context menu
\* the commands of the popup that change the mode, and a dismissed popup
MenuCommands == { "none", "freehand", "split", "delete" }

\* on_context_menu with the command picked from the popup: the freehand
\* and split modes are left first (exit_freehand_draw_mode,
\* exit_split_mode), the delete mode is not; PopupMenu then runs the
\* command's handler (enter_freehand_draw_mode, enter_split_mode,
\* enter_delete_mode), which tests no mode
on_context_menu(cmd) ==
    /\ LET inSplit == mode \in { SPLIT_PICK_FIRST_MODE, SPLIT_PICK_SECOND_MODE }
           cancelled == IF mode = FREEHAND_DRAW_MODE \/ inSplit THEN NORMAL_MODE ELSE mode
       IN  /\ mode' = CASE cmd = "freehand" -> FREEHAND_DRAW_MODE
                        [] cmd = "split" -> SPLIT_PICK_FIRST_MODE
                        [] cmd = "delete" -> DELETE_MODE
                        [] OTHER -> cancelled
           /\ active_artist' = IF mode = FREEHAND_DRAW_MODE \/ cmd = "freehand"
                               THEN NoArtist ELSE active_artist
           /\ split_artist' = IF mode = SPLIT_PICK_SECOND_MODE THEN FALSE ELSE split_artist
           /\ delete_mode_start' = IF cmd = "delete" THEN << >> ELSE delete_mode_start
           /\ delete_mode_filter' = IF cmd = "delete" THEN << >> ELSE delete_mode_filter
    /\ ev' = CASE cmd = "freehand" -> "menu_freehand"
               [] cmd = "split" -> "menu_split"
               [] cmd = "delete" -> "menu_delete"
               [] OTHER -> "menu_none"
    /\ raised' = ""
    /\ event' = << >>
    /\ Tick
    /\ UNCHANGED << constVars, rasterVars, artists, undoVars, active_index,
                    split_pick_artist, split_pick_index, delete_mode_artist,
                    delete_mode_rect_artist, countVars >>

\* The menu session: a chain is opened, each mode is entered and its
\* gesture begun, and the context menu is opened at any point.
MenuPointer == { << 0, 0 >>, << 1, 1 >> }

InitMenu == Init /\ orig_labels = TwoBlocks /\ ~ allow_overlap

NextMenu ==
    \/ \E pos \in MenuPointer : OnClickRight(pos)
    \/ enter_split_mode
    \/ \E pos \in MenuPointer : on_split_first_click(pos)
    \/ enter_freehand_draw_mode
    \/ \E pos \in MenuPointer : on_freehand_draw_click(pos)
    \/ enter_delete_mode
    \/ \E pos \in MenuPointer : on_delete_click(pos)
    \/ \E pos \in MenuPointer : on_mouse_moved_delete_mode(pos)
    \/ \E cmd \in MenuCommands : on_context_menu(cmd)

SpecMenu == InitMenu /\ [][NextMenu]_vars

MenuEvents == { "menu_none", "menu_freehand", "menu_split", "menu_delete" }

\* a stroke, a split pick or a delete rectangle of an unfinished gesture
Leftover ==
    \/ active_artist.aid = -1
    \/ split_artist
    \/ delete_mode_rect_artist
    \/ delete_mode_artist
    \/ delete_mode_start # << >>

\* C39: opening the context menu in a non-Normal mode cancels the gesture in
\* progress and returns to Normal mode before a menu command runs: a
\* dismissed menu leaves Normal mode, and a command that enters a mode
\* starts it with no stroke, split pick or delete rectangle left over
C39_ContextMenuCancelsGesture ==
    [][ev' \in MenuEvents =>
          /\ ev' = "menu_none" => mode' = NORMAL_MODE
          /\ ~ Leftover']_vars


\* ------------------------------------------------------------ the keyboard
\* a key that matches no branch of on_key_down: only pressed_keys changes
key_ignored ==
    /\ ev' = "key_ignored"
    /\ raised' = ""
    /\ event' = << >>
    /\ Tick
    /\ UNCHANGED << constVars, rasterVars, artists, undoVars, mode, activeVars, splitVars,
                    deleteVars, countVars >>

\* the dispatch of on_key_down in Normal mode, the pointer being at pos
normal_mode_key(key, pos) ==
    CASE key = "j" -> join_objects
      [] key = "c" -> convex_hull
      [] key = "a" -> add_control_point(pos)
      [] key = "d" -> delete_control_point(pos)
      [] key = "f" -> enter_freehand_draw_mode
      [] key = "m" -> \E cmd \in MenuCommands : on_context_menu(cmd)
      [] key = "n" -> new_object(pos)
      [] key = "s" -> enter_split_mode
      [] key = "x" -> enter_delete_mode
      [] key = "z" -> IF Len(undo_stack) > 0 THEN Undo ELSE key_ignored
      [] key = "escape" -> remove_artists
      [] OTHER -> key_ignored

\* A variant of on_key_down whose split and delete branches leave the mode
\* on any key, as the freehand branch does.
on_key_down_leaving_on_any_key(key, pos) ==
    CASE mode = NORMAL_MODE -> normal_mode_key(key, pos)
      [] mode \in { SPLIT_PICK_FIRST_MODE, SPLIT_PICK_SECOND_MODE } -> exit_split_mode
      [] mode = DELETE_MODE -> exit_delete_mode
      [] mode = FREEHAND_DRAW_MODE -> exit_freehand_draw_mode

\* on_key_down with the pointer at pos
on_key_down(key, pos) ==
    CASE mode = NORMAL_MODE -> normal_mode_key(key, pos)
      [] mode \in { SPLIT_PICK_FIRST_MODE, SPLIT_PICK_SECOND_MODE } ->
            IF key = "escape" THEN exit_split_mode ELSE key_ignored
      [] mode = DELETE_MODE ->
            IF key = "escape" THEN exit_delete_mode ELSE key_ignored
      [] mode = FREEHAND_DRAW_MODE -> exit_freehand_draw_mode

\* The keyboard session: chains are opened, the modes are entered by their
\* keys, a split pick, a stroke and a rectangle are begun, and any key is
\* struck at any point.
Keys == { "j", "c", "a", "d", "f", "m", "n", "s", "x", "z", "escape", "f1" }
KeyPointer == { << 1, 1 >> }

InitKeys == Init /\ orig_labels = TwoBlocks /\ ~ allow_overlap

NextKeys ==
    \/ \E pos \in KeyPointer : OnClickRight(pos)
    \/ \E pos \in KeyPointer : on_split_first_click(pos)
    \/ \E pos \in KeyPointer : on_freehand_draw_click(pos)
    \/ \E pos \in KeyPointer : on_delete_click(pos)
    \/ \E key \in Keys : \E pos \in KeyPointer : on_key_down(key, pos)

SpecKeys == InitKeys /\ [][NextKeys]_vars

\* C40: key commands run their edit only in Normal mode: in the split modes
\* and the delete mode a key other than Escape leaves the mode, the raster,
\* the chains, the keep flags and the undo stack unchanged, and in the
\* freehand mode no key joins, takes a convex hull, adds or deletes a control
\* point, makes a new object or undoes (raster, chains, keep flags and undo
\* stack are left alone)
C40_KeysEditOnlyInNormalMode ==
    [][\A key \in Keys : \A pos \in KeyPointer :
          (mode # NORMAL_MODE /\ on_key_down(key, pos)) =>
             /\ labels' = labels
             /\ artists' = artists
             /\ to_keep' = to_keep
             /\ undo_stack' = undo_stack
             /\ (mode # FREEHAND_DRAW_MODE /\ key # "escape") => mode' = mode]_vars

\* J was struck after the first split pick and nothing happened
C40_KeyIgnoredInSplit ==
    /\ ev = "key_ignored"
    /\ mode = SPLIT_PICK_SECOND_MODE
    /\ split_artist
    /\ Len(artists) > 0
    /\ undo_stack = << >>

====
